---- MODULE Spec2Model ----
(***************************************************************************)
(* A model of the search core of chesag: the alpha-beta searcher of        *)
(* agents/minimax.py, the MCTS tree and searcher of agents/mcts/node.py    *)
(* and agents/mcts/algorithm.py, and the transposition cache with its      *)
(* snapshot file.                                                          *)
(*                                                                         *)
(* The chess rules engine (python-chess) is an external collaborator. A    *)
(* position is therefore abstract: it has a side to move, a list of legal  *)
(* moves, terminal flags and a static score.                               *)
(***************************************************************************)
EXTENDS Integers, Sequences, FiniteSets, TLC

VARIABLES
  \* ---- MinimaxAgent (agents/minimax.py) ----
  board,        \* the position handed to MinimaxAgent.get_move (a game tree)
  maxdepth,     \* MinimaxAgent.maxdepth
  mmPc,         \* "ready" | "returned": position of the get_move call
  mmMove,       \* the move get_move returned (NullMove for a resignation)
  best_value,   \* get_move's local best_value when it returned
  last_search,  \* MinimaxAgent.last_search, summed over the depths
  \* ---- MCTS tree and searcher (agents/mcts/node.py, algorithm.py) ----
  game,         \* the game behind the root position (legal-move counts, results)
  nodes,        \* the Node objects, in creation order; nodes[1] is the root
  searchPc,     \* "idle" | "rooted" | "searched" | "chosen" | "raised"
  num_simulations, \* the budget of the search call
  simsRun,      \* the simulations the loop of search has run
  lastPath,     \* single_step's local path of the last simulation
  lastResult,   \* the result single_step returned last
  rolled,       \* whether the last simulate call did a rollout
  move_selector,\* MCTSSearcher.move_selector: "VISIT" | "ACTION"
  bestChild,    \* what get_best_child returned
  rollouts,     \* history: per fingerprint, the rollouts done and their sum
  \* ---- transposition cache and its snapshot file (algorithm.py) ----
  transposition_table, \* None, or the LRU cache: entries, least recent first
  cache_file,   \* the snapshot file: None (missing) or its content
  remaining_simulations_until_cache_persist,
  ctorPc,       \* the searcher: none yet, loaded, live, closed, or its
                \* constructor raised
  sims_since_save, \* history: the simulations search ran with the cache
                \* enabled since the cache was last saved (or since the start)
  \* ---- a call of one of the functions of the program ----
  call,         \* the function called and its arguments
  outcome       \* what the call returned or raised

mmVars == <<board, maxdepth, mmPc, mmMove, best_value, last_search>>
treeVars == <<game, nodes, searchPc, num_simulations, simsRun, lastPath,
              lastResult, rolled, move_selector, bestChild, rollouts>>
cacheVars == <<transposition_table, cache_file,
               remaining_simulations_until_cache_persist, ctorPc,
               sims_since_save>>

callVars == <<call, outcome>>

vars == <<board, maxdepth, mmPc, mmMove, best_value, last_search,
          game, nodes, searchPc, num_simulations, simsRun, lastPath, lastResult,
          rolled, move_selector, bestChild, rollouts,
          transposition_table, cache_file,
          remaining_simulations_until_cache_persist, ctorPc, sims_since_save,
          call, outcome>>

(***************************************************************************)
(* Bounds of the model and constants of the program.                       *)
(***************************************************************************)
\* Static scores of a position range over -MaxScore..MaxScore.
MaxScore == 1

\* float("inf"): larger than every finite score of the model.
Inf == 1000
\* MinimaxAgent.resign_threshold (default).
ResignThreshold == 6

WHITE == TRUE
BLACK == FALSE
\* chess.Move.null()
NullMove == 0
\* Python's None where a move or a value is expected
None == -(Inf + 1)

Max(a, b) == IF a >= b THEN a ELSE b
Min(a, b) == IF a <= b THEN a ELSE b

(***************************************************************************)
(* The game tree behind a position. Nodes are numbered as in a binary heap *)
(* (the root is 1, the moves of n lead to 2n and 2n+1); a move is named by *)
(* the node it leads to. ShapeMoves gives the legal moves in the order the *)
(* move generator yields them.                                             *)
(***************************************************************************)
Nodes == {1, 2, 3, 4, 5, 6, 8, 9, 10, 11, 12}
Root == 1
\* The positions three plies below the root: the horizon of the deepest search.
\* Their own moves are never generated, the model leaves them out.
Horizon == {8, 9, 10, 11, 12}
\* The search depths tried: up to the height of the tree.
Depths == {1, 2, 3}

ShapeMoves(n) ==
  CASE n = 1 -> <<2, 3>>
    [] n = 2 -> <<4, 5>>
    [] n = 3 -> <<6>>
    [] n = 4 -> <<8, 9>>
    [] n = 5 -> <<10, 11>>
    [] n = 6 -> <<12>>
    [] OTHER -> <<>>

RECURSIVE Level(_)
Level(n) == IF n = Root THEN 0 ELSE 1 + Level(n \div 2)

\* board.turn after the moves leading to n were pushed.
Turn(b, n) == IF Level(n) % 2 = 0 THEN b.turn ELSE ~b.turn

\* board.is_checkmate()
is_checkmate(b, n) == n \in b.mate

\* board.is_stalemate()
is_stalemate(b, n) == n \in b.stale

\* board.is_game_over(): checkmate or stalemate.
is_game_over(b, n) == is_checkmate(b, n) \/ is_stalemate(b, n)

\* list(board.legal_moves): a finished game has none; b.illegal holds the moves
\* of the shape that the rules forbid in this position (a pinned piece, a king
\* in check), which the move generator does not yield.
legal_moves(b, n) ==
  LET IsLegal(m) == m \notin b.illegal
  IN IF is_game_over(b, n) THEN <<>> ELSE SelectSeq(ShapeMoves(n), IsLegal)

\* board.is_capture(m) or m.promotion
is_noisy(b, m) == m \in b.noisy

(***************************************************************************)
(* evaluation.py                                                           *)
(***************************************************************************)
\* The feature sum of evaluate for the features quick_evaluate turns on: every
\* feature function computes a White-relative score and negates it for Black.
FeatureSum(b, n, perspective_color) ==
  IF perspective_color = WHITE THEN b.sc[n] ELSE -b.sc[n]

quick_evaluate(b, n, perspective_color) ==
  IF is_checkmate(b, n)
  THEN IF Turn(b, n) # perspective_color THEN Inf ELSE -Inf
  ELSE IF is_stalemate(b, n) THEN 0
  ELSE FeatureSum(b, n, perspective_color)

\* evaluate(board, board.turn) of the root position, all default features on.
evaluate_root(b) ==
  IF is_checkmate(b, Root) THEN -Inf
  ELSE IF is_stalemate(b, Root) THEN 0
  ELSE b.eval

(***************************************************************************)
(* move_priority.py                                                        *)
(***************************************************************************)
\* HeuristicMovePrioritizer.evaluate_move: the priority of the position after
\* the move, for the side that moved: infinite for a checkmate, 0 for a
\* stalemate, else the heuristic sum (its material term is modelled).
evaluate_move(b, m) ==
  IF is_checkmate(b, m) THEN Inf
  ELSE IF is_stalemate(b, m) THEN 0
  ELSE IF Turn(b, m) = BLACK THEN b.sc[m] ELSE -b.sc[m]

\* sorted(moves, key=..., reverse=True): a stable sort, highest priority first.
RECURSIVE InsertByPriority(_, _, _)
InsertByPriority(b, m, sorted) ==
  IF sorted = <<>> THEN <<m>>
  ELSE IF evaluate_move(b, Head(sorted)) >= evaluate_move(b, m)
       THEN <<Head(sorted)>> \o InsertByPriority(b, m, Tail(sorted))
       ELSE <<m>> \o sorted

RECURSIVE order_moves(_, _)
order_moves(b, moves) ==
  IF moves = <<>> THEN <<>>
  ELSE InsertByPriority(b, moves[Len(moves)],
                        order_moves(b, SubSeq(moves, 1, Len(moves) - 1)))

\* record_history(move, depth): the history-heuristic bump on a cutoff. It
\* feeds no ordering of order_moves; the model counts the bumps.
record_history(stats) == [stats EXCEPT !.pruned = @ + 1]

(***************************************************************************)
(* agents/minimax.py                                                       *)
(***************************************************************************)
\* noisy_moves of quiescence: the captures and promotions, in legal order.
noisy_moves(b, n) ==
  LET IsNoisy(m) == is_noisy(b, m) IN SelectSeq(legal_moves(b, n), IsNoisy)

RECURSIVE quiescence(_, _, _, _, _)
RECURSIVE QuiescenceLoop(_, _, _, _, _, _)

\* The for loop of quiescence over moves[idx..], with the current alpha.
QuiescenceLoop(b, moves, idx, alpha, beta, perspective_color) ==
  IF idx > Len(moves) THEN alpha
  ELSE LET score == -quiescence(b, moves[idx], -beta, -alpha, ~perspective_color)
       IN IF score >= beta THEN beta
          ELSE QuiescenceLoop(b, moves, idx + 1, Max(score, alpha), beta,
                              perspective_color)

quiescence(b, n, alpha, beta, perspective_color) ==
  LET stand_pat == quick_evaluate(b, n, perspective_color)
  IN IF stand_pat >= beta THEN beta
     ELSE QuiescenceLoop(b, order_moves(b, noisy_moves(b, n)), 1,
                         Max(stand_pat, alpha), beta, perspective_color)

\* A window that is negated but not swapped: (-alpha, -beta).
ChildWindowUnswapped(alpha, beta) == [alpha |-> -alpha, beta |-> -beta]

\* The window negamax hands to the search of a child: (-beta, -alpha).
ChildWindow(alpha, beta) == [alpha |-> -beta, beta |-> -alpha]

\* The statistics of a search that has not looked at any move.
NoStats == [searched |-> 0, pruned |-> 0]
AddStats(s, t) ==
  [searched |-> s.searched + t.searched, pruned |-> s.pruned + t.pruned]

RECURSIVE negamax(_, _, _, _, _, _)
RECURSIVE NegamaxLoop(_, _, _, _, _, _, _, _, _)

\* The for loop of negamax over moves[idx..], with the current value, alpha and
\* statistics. The result is the returned value and the statistics.
NegamaxLoop(b, moves, idx, depth, alpha, beta, maximizing_color, value, stats) ==
  IF idx > Len(moves) THEN [value |-> value, stats |-> stats]
  ELSE LET w == ChildWindow(alpha, beta)
           r == negamax(b, moves[idx], depth - 1, w.alpha, w.beta,
                        ~maximizing_color)
           v == Max(value, -r.value)
           a == Max(alpha, v)
           s == [AddStats(stats, r.stats) EXCEPT !.searched = @ + 1]
       IN IF a >= beta
          THEN [value |-> v, stats |-> record_history(s)]
          ELSE NegamaxLoop(b, moves, idx + 1, depth, a, beta, maximizing_color,
                           v, s)

negamax(b, n, depth, alpha, beta, maximizing_color) ==
  IF depth = 0 \/ is_game_over(b, n)
  THEN [value |-> quiescence(b, n, alpha, beta,
                             IF maximizing_color THEN WHITE ELSE BLACK),
        stats |-> NoStats]
  ELSE NegamaxLoop(b, order_moves(b, legal_moves(b, n)), 1, depth, alpha, beta,
                   maximizing_color, -Inf, NoStats)

\* Whether the root loop of get_move takes value as its new best.
Improves(maximizing, value, best) ==
  (maximizing /\ value > best) \/ (~maximizing /\ value < best)

\* The for loop of get_move over sorted_moves[idx..]; values[i] is the value
\* the search returned for the position after moves[i].
RECURSIVE RootLoop(_, _, _, _, _, _)
RootLoop(moves, values, idx, maximizing, best_move, best) ==
  IF idx > Len(moves) THEN [move |-> best_move, value |-> best]
  ELSE IF Improves(maximizing, values[idx], best)
       THEN RootLoop(moves, values, idx + 1, maximizing, moves[idx], values[idx])
       ELSE RootLoop(moves, values, idx + 1, maximizing, best_move, best)

RECURSIVE SumSeq(_)
SumSeq(s) == IF s = <<>> THEN 0 ELSE Head(s) + SumSeq(Tail(s))

\* MinimaxAgent.get_move(board): the move returned, best_value and last_search.
\* With no legal move and no resignation, sorted_moves[0] of the last line
\* raises IndexError.
get_move(b, depth) ==
  LET legal == legal_moves(b, Root)
      sorted_moves == order_moves(b, legal)
      maximizing == (b.turn = WHITE)
      found == [i \in 1..Len(sorted_moves) |->
                  negamax(b, sorted_moves[i], depth - 1, -Inf, Inf, ~maximizing)]
      r == RootLoop(sorted_moves, [i \in 1..Len(found) |-> found[i].value], 1,
                    maximizing, None, IF maximizing THEN -Inf ELSE Inf)
      sub == [i \in 1..Len(found) |-> found[i].stats]
  IN IF evaluate_root(b) < -ResignThreshold
     THEN [move |-> NullMove, value |-> None, stats |-> NoStats, searched |-> FALSE,
           error |-> "none"]
     ELSE IF Len(legal) = 1
     THEN [move |-> legal[1], value |-> None, stats |-> NoStats, searched |-> FALSE,
           error |-> "none"]
     ELSE IF sorted_moves = <<>>
     THEN [move |-> None, value |-> r.value, stats |-> NoStats, searched |-> TRUE,
           error |-> "IndexError"]
     ELSE [move |-> IF r.move # None THEN r.move ELSE sorted_moves[1],
           value |-> r.value, error |-> "none",
           stats |-> [searched |-> Len(sorted_moves)
                                   + SumSeq([i \in 1..Len(sub) |-> sub[i].searched]),
                      pruned |-> SumSeq([i \in 1..Len(sub) |-> sub[i].pruned])],
           searched |-> TRUE]

(***************************************************************************)
(* The reference: full minimax without a window, on the same tree with the *)
(* same move order and the same tie-break at the root.                     *)
(***************************************************************************)
RECURSIVE FullQuiescence(_, _, _)
RECURSIVE FullQuiescenceLoop(_, _, _, _, _)
FullQuiescenceLoop(b, moves, idx, best, perspective_color) ==
  IF idx > Len(moves) THEN best
  ELSE FullQuiescenceLoop(b, moves, idx + 1,
         Max(best, -FullQuiescence(b, moves[idx], ~perspective_color)),
         perspective_color)
FullQuiescence(b, n, perspective_color) ==
  FullQuiescenceLoop(b, noisy_moves(b, n), 1,
                     quick_evaluate(b, n, perspective_color), perspective_color)

RECURSIVE FullMinimax(_, _, _, _)
RECURSIVE FullMinimaxLoop(_, _, _, _, _, _)
FullMinimaxLoop(b, moves, idx, depth, maximizing_color, best) ==
  IF idx > Len(moves) THEN best
  ELSE FullMinimaxLoop(b, moves, idx + 1, depth, maximizing_color,
         Max(best, -FullMinimax(b, moves[idx], depth - 1, ~maximizing_color)))
FullMinimax(b, n, depth, maximizing_color) ==
  IF depth = 0 \/ is_game_over(b, n)
  THEN FullQuiescence(b, n, IF maximizing_color THEN WHITE ELSE BLACK)
  ELSE FullMinimaxLoop(b, legal_moves(b, n), 1, depth, maximizing_color, -Inf)

FullSearch(b, depth) ==
  LET sorted_moves == order_moves(b, legal_moves(b, Root))
      maximizing == (b.turn = WHITE)
      values == [i \in 1..Len(sorted_moves) |->
                   FullMinimax(b, sorted_moves[i], depth - 1, ~maximizing)]
      r == RootLoop(sorted_moves, values, 1, maximizing, None,
                    IF maximizing THEN -Inf ELSE Inf)
  IN [move |-> IF r.move # None THEN r.move ELSE sorted_moves[1],
      value |-> r.value]

(***************************************************************************)
(* The game behind an MCTS search. A position is the sequence of moves     *)
(* played from the root position; a position d plies below the root has    *)
(* game.moves[d + 1] legal moves, numbered in the order the move generator *)
(* yields them, and the game is over where there is none. The positions of *)
(* game.mated are checkmates whatever their depth. A position's FEN names  *)
(* it.                                                                     *)
(***************************************************************************)
NumMoves(g, pos) ==
  IF pos \in g.mated THEN 0
  ELSE IF Len(pos) < Len(g.moves) THEN g.moves[Len(pos) + 1] ELSE 0

\* list(board.legal_moves)
LegalMoves(g, pos) == [i \in 1..NumMoves(g, pos) |-> i]

\* board.is_game_over()
GameOver(g, pos) == NumMoves(g, pos) = 0

\* ExtendedBoard.evaluation() of a finished game, for the side to move: the
\* side to move is checkmated (-1.0) or the game is drawn (0.0).
evaluation(g, pos) == IF g.mate \/ pos \in g.mated THEN -1 ELSE 0

\* board.fen()
fen(pos) == pos

\* HeuristicMovePrioritizer.order_moves on a position of the game: a stable
\* sort by descending priority; the later a move is generated, the higher its
\* priority here.
RECURSIVE InsertDescending(_, _)
InsertDescending(m, sorted) ==
  IF sorted = <<>> THEN <<m>>
  ELSE IF Head(sorted) >= m
       THEN <<Head(sorted)>> \o InsertDescending(m, Tail(sorted))
       ELSE <<m>> \o sorted

RECURSIVE OrderedMoves(_)
OrderedMoves(moves) ==
  IF moves = <<>> THEN <<>>
  ELSE InsertDescending(moves[Len(moves)],
                        OrderedMoves(SubSeq(moves, 1, Len(moves) - 1)))

(***************************************************************************)
(* agents/mcts/node.py: Node. A node is named by its index in the sequence *)
(* of nodes; parent 0 is None.                                             *)
(***************************************************************************)
\* A node that starts with a value before any visit.
NewNodeOptimistic(parent, move, pos) ==
  [parent |-> parent, move |-> move, pos |-> pos, children |-> <<>>,
   visits |-> 0, value |-> 1, is_expanded |-> FALSE, available_moves |-> <<>>]

\* Node.__init__
NewNode(parent, move, pos) ==
  [parent |-> parent, move |-> move, pos |-> pos, children |-> <<>>,
   visits |-> 0, value |-> 0, is_expanded |-> FALSE, available_moves |-> <<>>]

\* Node.is_terminal
is_terminal(g, n) == GameOver(g, n.pos)

\* int(math.sqrt(v))
RECURSIVE IsqrtFrom(_, _)
IsqrtFrom(v, r) == IF (r + 1) * (r + 1) > v THEN r ELSE IsqrtFrom(v, r + 1)
Isqrt(v) == IsqrtFrom(v, 0)

\* Node._get_initial_moves
get_initial_moves(available_moves) ==
  IF available_moves = <<>> THEN <<>>
  ELSE SubSeq(available_moves, 1,
              IF Len(available_moves) > 8 THEN Min(4, Len(available_moves))
              ELSE Len(available_moves))

\* list.remove(x): drops the first element equal to x.
RECURSIVE ListRemove(_, _)
ListRemove(s, x) ==
  IF s = <<>> THEN <<>>
  ELSE IF Head(s) = x THEN Tail(s) ELSE <<Head(s)>> \o ListRemove(Tail(s), x)

\* The loops of expand: a child of node i is created for moves[1..count], in
\* order; remove tells how the move leaves available_moves (remove(move) in the
\* first expansion, pop(0) in the later ones).
RECURSIVE AddChildren(_, _, _, _, _)
AddChildren(ns, i, moves, count, byRemove) ==
  IF count = 0 THEN ns
  ELSE LET m == Head(moves)
           child == NewNode(i, m, Append(ns[i].pos, m))
           grown == Append(ns, child)
       IN AddChildren(
            [grown EXCEPT ![i].children = Append(@, Len(grown)),
                          ![i].available_moves =
                             IF byRemove THEN ListRemove(@, m) ELSE Tail(@)],
            i, Tail(moves), count - 1, byRemove)

\* The cap of the later expansions.
WideningCap(n) == Max(4, Isqrt(n.visits))

\* Node.expand on node i.
expand(g, ns, i) ==
  IF is_terminal(g, ns[i]) THEN ns
  ELSE
    LET filled == IF ns[i].available_moves = <<>>
                  THEN [ns EXCEPT ![i].available_moves =
                                     OrderedMoves(LegalMoves(g, ns[i].pos))]
                  ELSE ns
        n == filled[i]
    IN IF ~n.is_expanded
       THEN LET initial_moves == get_initial_moves(n.available_moves)
                added == AddChildren(filled, i, initial_moves,
                                     Len(initial_moves), TRUE)
            IN IF added[i].available_moves = <<>>
               THEN [added EXCEPT ![i].is_expanded = TRUE]
               ELSE added
       ELSE LET max_children == Min(Len(n.available_moves) + Len(n.children),
                                    WideningCap(n))
                count == Min(Max(max_children - Len(n.children), 0),
                             Len(n.available_moves))
                added == AddChildren(filled, i, n.available_moves, count, FALSE)
            IN IF added[i].available_moves = <<>>
               THEN [added EXCEPT ![i].is_expanded = TRUE]
               ELSE added

\* round(10^6 * ln(v)) for v = 1, 2, ...
LnMicro ==
  <<0, 693147, 1098612, 1386294, 1609438, 1791759, 1945910, 2079442,
    2197225, 2302585, 2397895, 2484907>>

\* The largest r in lo..hi with r * r <= v.
RECURSIVE SqrtBetween(_, _, _)
SqrtBetween(v, lo, hi) ==
  IF lo >= hi THEN lo
  ELSE LET mid == (lo + hi + 1) \div 2
       IN IF mid * mid <= v THEN SqrtBetween(v, mid, hi)
          ELSE SqrtBetween(v, lo, mid - 1)

\* c_puct of MCTSConfig, in tenths (1.4).
CPuctTenths == 14

\* The UCB1 score of child c of parent p in select_child, in ten-thousandths:
\* c.value / c.visits + c_puct * sqrt(log(p.visits) / c.visits).
UcbScore(p, c) ==
  (c.value * 10000) \div c.visits
    + (CPuctTenths * SqrtBetween((LnMicro[p.visits] * 100) \div c.visits,
                                 0, 20000)) \div 10

\* The second loop of select_child over children[idx..]: the first child with
\* the highest score (best_child 0 is None).
RECURSIVE UcbLoop(_, _, _, _, _)
UcbLoop(ns, i, idx, best_score, best_child) ==
  IF idx > Len(ns[i].children) THEN best_child
  ELSE LET c == ns[i].children[idx]
           score == UcbScore(ns[i], ns[c])
       IN IF best_child = 0 \/ score > best_score
          THEN UcbLoop(ns, i, idx + 1, score, c)
          ELSE UcbLoop(ns, i, idx + 1, best_score, best_child)

\* The children of node i that were never visited, in child order.
Unvisited(ns, i) ==
  LET Fresh(c) == ns[c].visits = 0 IN SelectSeq(ns[i].children, Fresh)

\* The last child, visited or not.
SelectLastChild(ns, i) == ns[i].children[Len(ns[i].children)]

\* Node.select_child on node i, which has children: the first child with no
\* visit if there is one, else the child with the highest UCB1 score.
select_child(ns, i) ==
  IF Unvisited(ns, i) # <<>> THEN Head(Unvisited(ns, i))
  ELSE UcbLoop(ns, i, 1, 0, 0)

\* A result handed to the parent as it is.
KeepResult(res) == res

\* result = -result: the result as the parent, the other side, sees it.
FlipResult(res) == -res

\* Only the simulated node is updated.
BackpropagateLeafOnly(ns, i, res) ==
  IF i = 0 THEN ns
  ELSE [ns EXCEPT ![i].visits = @ + 1, ![i].value = @ + res]

\* The result reaches every node up to the root, the visit only the
\* simulated node.
RECURSIVE AddValues(_, _, _)
AddValues(ns, i, res) ==
  IF i = 0 THEN ns
  ELSE AddValues([ns EXCEPT ![i].value = @ + res], ns[i].parent, -res)
BackpropagateOneVisit(ns, i, res) ==
  IF i = 0 THEN ns ELSE [AddValues(ns, i, res) EXCEPT ![i].visits = @ + 1]

\* The loop of backpropagate from node i.
RECURSIVE BackpropagateLoop(_, _, _)
BackpropagateLoop(ns, i, res) ==
  IF i = 0 THEN ns
  ELSE BackpropagateLoop([ns EXCEPT ![i].visits = @ + 1, ![i].value = @ + res],
                         ns[i].parent, FlipResult(res))

\* Node.backpropagate(result) on node i.
backpropagate(ns, i, res) == BackpropagateLoop(ns, i, res)

\* The values symmetric_evaluation gives the position a rollout ends in.
RolloutResults == {-1, 0, 1}

(***************************************************************************)
(* agents/mcts/algorithm.py: the transposition table is a cachetools       *)
(* LRUCache: its entries, the least recently used first.                   *)
(***************************************************************************)
\* LRUCache(maxsize=20000)
CacheMaxsize == 20000
\* The visits a cached entry needs before simulate returns it.
CacheConfidence == 200

NoTable == [kind |-> "None"]
EmptyCache == [kind |-> "LRUCache", maxsize |-> CacheMaxsize, data |-> <<>>]

\* The index of the entry of key f in the entries, 0 if there is none.
RECURSIVE KeyIndexFrom(_, _, _)
KeyIndexFrom(data, f, i) ==
  IF i > Len(data) THEN 0
  ELSE IF data[i].fen = f THEN i ELSE KeyIndexFrom(data, f, i + 1)
KeyIndex(data, f) == KeyIndexFrom(data, f, 1)

\* The entries without the one at index i.
DropAt(data, i) == SubSeq(data, 1, i - 1) \o SubSeq(data, i + 1, Len(data))

\* cache.get(f): the table after the lookup (a hit makes the entry the most
\* recently used).
CacheTouch(table, f) ==
  LET i == KeyIndex(table.data, f)
  IN IF i = 0 THEN table
     ELSE [table EXCEPT !.data = Append(DropAt(@, i), table.data[i])]

\* cache[f] = entry: replaces the entry of f, or adds one, evicting the least
\* recently used entry of a full cache.
CacheSet(table, f, entry) ==
  LET i == KeyIndex(table.data, f)
      kept == IF i # 0 THEN DropAt(table.data, i)
              ELSE IF Len(table.data) >= table.maxsize THEN Tail(table.data)
              ELSE table.data
  IN [table EXCEPT !.data = Append(kept, entry)]

\* CachedNode(value, visits) under its key.
CachedNode(f, value, visits) == [fen |-> f, value |-> value, visits |-> visits]

\* The entry simulate stores after a rollout of fingerprint f with result res.
RolloutEntry(table, f, res) == CachedNode(f, res, 1)

\* cache_persist_interval
CachePersistInterval == 1000

\* MCTSSearcher.simulate on a node, the rollout (if one is done) giving res:
\* the result, whether a rollout was done, and the table afterwards.
simulate(g, table, n, res) ==
  IF is_terminal(g, n)
  THEN [result |-> evaluation(g, n.pos), rolled |-> FALSE, table |-> table]
  ELSE
    LET f == fen(n.pos)
        i == IF table.kind = "None" THEN 0 ELSE KeyIndex(table.data, f)
        looked == IF table.kind = "None" THEN table ELSE CacheTouch(table, f)
    IN IF i # 0 /\ table.data[i].visits >= CacheConfidence
       THEN [result |-> table.data[i].value, rolled |-> FALSE, table |-> looked]
       ELSE [result |-> res, rolled |-> TRUE,
             table |-> IF table.kind = "None" THEN table
                       ELSE CacheSet(looked, f, RolloutEntry(looked, f, res))]

\* The selection phase of single_step: the path from node i down to the first
\* node that is terminal, not fully expanded or childless.
RECURSIVE SelectionPath(_, _, _)
SelectionPath(g, ns, walked) ==
  LET current == ns[walked[Len(walked)]]
  IN IF ~is_terminal(g, current) /\ current.is_expanded
        /\ current.children # <<>>
     THEN SelectionPath(g, ns, Append(walked, select_child(ns, walked[Len(walked)])))
     ELSE walked

\* The expansion phase of single_step on the node the selection ended in.
Expansion(g, ns, i) ==
  IF ~is_terminal(g, ns[i]) /\ (~ns[i].is_expanded \/ ns[i].children = <<>>)
  THEN expand(g, ns, i)
  ELSE ns

\* The nodes random.choice can give the simulation after the expansion phase.
SimulationNodes(g, ns, i) ==
  IF ~is_terminal(g, ns[i]) /\ ns[i].children # <<>>
  THEN {ns[i].children[k] : k \in 1..Len(ns[i].children)}
  ELSE {i}

\* MoveSelectorByVisitCount.select_best_child / MoveSelectorByActionValue.
\* select_best_child: max(children, key=...), which keeps the first maximum.
\* The keys are compared as fractions num / den.
\* A later key replaces the best one when it is as large.
AtLeast(c, b) == c.num * b.den >= b.num * c.den

\* max replaces its best element only by one with a strictly larger key.
Larger(c, b) == c.num * b.den > b.num * c.den

RECURSIVE MaxLoop(_, _, _, _)
MaxLoop(ns, children, idx, best_child) ==
  IF idx > Len(children) THEN best_child
  ELSE LET c == ns[children[idx]]
           b == ns[best_child]
       IN IF Larger(c, b)
          THEN MaxLoop(ns, children, idx + 1, children[idx])
          ELSE MaxLoop(ns, children, idx + 1, best_child)

\* The key of a child under a strategy, as a fraction.
WithKey(strategy, n) ==
  IF strategy = "VISIT" THEN [num |-> n.visits, den |-> 1]
  ELSE [num |-> n.value, den |-> n.visits]

\* select_best_child of the strategy on node i: 0 for None, -1 when
\* action_value raises on a child without visits.
select_best_child(strategy, ns, i) ==
  LET children == ns[i].children
      keyed == [k \in 1..Len(ns) |-> WithKey(strategy, ns[k])]
  IN IF children = <<>> THEN 0
     ELSE IF strategy = "ACTION"
             /\ \E k \in 1..Len(children) : ns[children[k]].visits = 0
     THEN -1
     ELSE MaxLoop(keyed, children, 2, children[1])

\* MCTSSearcher.get_best_child: (move, visits, value) of the best child, or a
\* raised ValueError.
get_best_child(strategy, ns) ==
  LET b == select_best_child(strategy, ns, 1)
  IN IF b <= 0 THEN [raised |-> TRUE, node |-> 0, move |-> 0, visits |-> 0, value |-> 0]
     ELSE [raised |-> FALSE, node |-> b, move |-> ns[b].move,
           visits |-> ns[b].visits, value |-> ns[b].value]

(***************************************************************************)
(* The cache file and pickle. A pickle stream is a sequence of frames: one *)
(* that opens the LRUCache object and carries its maxsize and its number   *)
(* of entries, one for each entry in the order of the cache, and a STOP.   *)
(* A file is missing, or has bytes and may have lost its read permission.  *)
(***************************************************************************)
Frame(op, key, value, visits) ==
  [op |-> op, key |-> key, value |-> value, visits |-> visits]

NoFile == [kind |-> "missing", readable |-> TRUE, bytes |-> <<>>]

\* pickle.dump(table, f)
Pickle(table) ==
  <<Frame("LRUCache", <<>>, table.maxsize, Len(table.data))>>
    \o [i \in 1..Len(table.data) |->
          Frame("CachedNode", table.data[i].fen, table.data[i].value,
                table.data[i].visits)]
    \o <<Frame("STOP", <<>>, 0, 0)>>

\* An entry decoded with its two numbers in each other's place.
FrameEntrySwapped(frame) == CachedNode(frame.key, frame.visits, frame.value)

\* The entry a frame of the stream decodes to.
FrameEntry(frame) == CachedNode(frame.key, frame.value, frame.visits)

\* pickle.load(f): the object, or the exception it raises (EOFError when the
\* stream ends early, UnpicklingError when a frame is not the expected one).
Unpickle(bytes) ==
  IF bytes = <<>> THEN [raised |-> "EOFError", table |-> NoTable]
  ELSE IF Head(bytes).op # "LRUCache"
  THEN [raised |-> "UnpicklingError", table |-> NoTable]
  ELSE
    LET count == Head(bytes).visits
    IN IF Len(bytes) < count + 2
       THEN [raised |-> "EOFError", table |-> NoTable]
       ELSE IF \/ \E i \in 2..(count + 1) : bytes[i].op # "CachedNode"
               \/ bytes[count + 2].op # "STOP"
       THEN [raised |-> "UnpicklingError", table |-> NoTable]
       ELSE [raised |-> "",
             table |-> [kind |-> "LRUCache", maxsize |-> Head(bytes).value,
                        data |-> [i \in 1..count |-> FrameEntry(bytes[i + 1])]]]

\* MCTSSearcher.load_cache: the table, or the exception that leaves it.
load_cache(file) ==
  IF file.kind = "missing" THEN [raised |-> "", table |-> EmptyCache]
  ELSE IF ~file.readable THEN [raised |-> "PermissionError", table |-> NoTable]
  ELSE Unpickle(file.bytes)

\* MCTSSearcher.save_cache: the file after open("wb") and the dump, which is
\* done only when there is a table.
save_cache(file, table) ==
  [kind |-> "file", readable |-> file.readable,
   bytes |-> IF table.kind = "None" THEN <<>> ELSE Pickle(table)]

\* MCTSSearcher.__init__: the table of the new searcher, or the exception.
NewSearcher(use_pruning, file) ==
  IF use_pruning THEN load_cache(file) ELSE [raised |-> "", table |-> NoTable]

(***************************************************************************)
(* Each specification below drives one part of the program; the variables  *)
(* of the other parts keep these values.                                   *)
(***************************************************************************)
NoGame == [moves |-> <<>>, mate |-> FALSE, mated |-> {}]
NoBest == [raised |-> FALSE, node |-> 0, move |-> 0, visits |-> 0, value |-> 0]

NoCall == [fn |-> "none"]
NoOutcome == [kind |-> "none"]

CallIdle ==
  /\ call = NoCall
  /\ outcome = NoOutcome

TreeIdle ==
  /\ game = NoGame
  /\ nodes = <<>>
  /\ searchPc = "idle"
  /\ num_simulations = 0
  /\ simsRun = 0
  /\ lastPath = <<>>
  /\ lastResult = 0
  /\ rolled = FALSE
  /\ move_selector = "ACTION"
  /\ bestChild = NoBest
  /\ rollouts = <<>>

CacheIdle ==
  /\ transposition_table = NoTable
  /\ cache_file = NoFile
  /\ remaining_simulations_until_cache_persist = CachePersistInterval
  /\ ctorPc = "idle"
  /\ sims_since_save = 0

(***************************************************************************)
(* The specification of MinimaxAgent: a position is chosen, get_move runs. *)
(***************************************************************************)
Scores == (-MaxScore)..MaxScore

\* The ways the game can be over somewhere in the tree: one position is a
\* checkmate or a stalemate.
Finished ==
  {[mate |-> {n}, stale |-> {}] : n \in {2, 3, 8}}
    \cup {[mate |-> {}, stale |-> {n}] : n \in {3, 9}}
\* The sets of moves that are captures or promotions.
NoisySets == {{}, {8, 9, 10, 11, 12}, {4, 5, 6, 8, 10}}

\* A position: the static scores s of some positions (the others score 0), the
\* finished positions f, the noisy moves q and the root's evaluate score e.
Position(t, s, f, q, e) ==
  [turn |-> t, sc |-> [n \in Nodes |-> IF n \in DOMAIN s THEN s[n] ELSE 0],
   mate |-> f.mate, stale |-> f.stale, noisy |-> q, eval |-> e,
   illegal |-> {}]

NotFinished == [mate |-> {}, stale |-> {}]

\* The positions get_move is tried on at a depth:
\*  - every scoring of the horizon, with captures where quiescence can reach
\*    them (depth below 3);
\*  - a checkmate or stalemate somewhere, with the scores of three horizon
\*    positions varying;
\*  - a root whose evaluate score is below -resign_threshold.
Boards(depth) ==
  {Position(t, s, NotFinished, q, 0) :
     t \in BOOLEAN, s \in [Horizon -> Scores],
     q \in IF depth < 3 THEN NoisySets ELSE {{}}}
  \cup
  {Position(t, s, f, {}, 0) :
     t \in BOOLEAN, s \in [{9, 10, 12} -> Scores], f \in Finished}
  \cup
  {Position(t, [n \in {} |-> 0], f, {}, -ResignThreshold - 1) :
     t \in BOOLEAN, f \in {NotFinished} \cup {g \in Finished : g.stale = {}}}

InitMinimax ==
  /\ maxdepth \in Depths
  /\ board \in Boards(maxdepth)
  /\ mmPc = "ready"
  /\ mmMove = None
  /\ best_value = None
  /\ last_search = NoStats
  /\ CallIdle
  /\ TreeIdle
  /\ CacheIdle

GetMove ==
  /\ mmPc = "ready"
  /\ LET r == get_move(board, maxdepth)
     IN /\ mmMove' = r.move
        /\ best_value' = r.value
        /\ last_search' = r.stats
        /\ mmPc' = IF r.searched THEN "searched" ELSE "returned"
  /\ UNCHANGED <<board, maxdepth, treeVars, cacheVars, callVars>>

NextMinimax == GetMove

SpecMinimax == InitMinimax /\ [][NextMinimax]_vars

MatingMoves(b) ==
  {legal_moves(b, Root)[i] : i \in {j \in 1..Len(legal_moves(b, Root)) :
                                      is_checkmate(b, legal_moves(b, Root)[j])}}

\* C2: in a position where the side to move (White or Black) can give checkmate
\* at once, the search of get_move (depth >= 1) returns a mating move and its
\* value is decisive for the side to move (+inf for White, who maximizes; -inf
\* for Black, who minimizes).
MateInOneIsPlayed ==
  (mmPc = "searched" /\ MatingMoves(board) # {}) =>
    /\ mmMove \in MatingMoves(board)
    /\ best_value = IF board.turn = WHITE THEN Inf ELSE -Inf

(***************************************************************************)
(* The specification of an MCTS search: a searcher is constructed, the     *)
(* root of a game is created, search runs its simulations one by one, and  *)
(* get_best_child picks the move.                                          *)
(***************************************************************************)
MaxSims == 3

\* The games searched: the number of legal moves at each depth, and whether a
\* finished game is a checkmate or a draw.
Games ==
  {[moves |-> m, mate |-> k, mated |-> {}] :
     m \in {<<1>>, <<2>>, <<3>>, <<2, 1>>, <<2, 2>>, <<3, 1, 1>>,
            <<1, 9>>, <<1, 9, 1>>, <<13>>},
     k \in BOOLEAN}
  \cup
  {[moves |-> <<2, 1>>, mate |-> FALSE, mated |-> {<<m>>}] : m \in {1, 2}}

\* A cache a former run left in the file: one position, trusted by simulate.
WarmCache ==
  [kind |-> "LRUCache", maxsize |-> CacheMaxsize,
   data |-> <<CachedNode(<<1, 1>>, 1, CacheConfidence)>>]

InitMCTS ==
  /\ game \in Games
  /\ num_simulations \in 0..MaxSims
  /\ move_selector \in {"VISIT", "ACTION"}
  /\ cache_file \in {NoFile, save_cache(NoFile, WarmCache)}
  /\ \E use_pruning \in BOOLEAN :
       transposition_table = NewSearcher(use_pruning, cache_file).table
  /\ remaining_simulations_until_cache_persist = CachePersistInterval
  /\ ctorPc = "constructed"
  /\ sims_since_save = 0
  /\ nodes = <<>>
  /\ searchPc = "start"
  /\ simsRun = 0
  /\ lastPath = <<>>
  /\ lastResult = 0
  /\ rolled = FALSE
  /\ bestChild = NoBest
  /\ rollouts = <<>>
  /\ board = Position(WHITE, <<>>, NotFinished, {}, 0)
  /\ maxdepth = 1
  /\ mmPc = "idle"
  /\ mmMove = None
  /\ best_value = None
  /\ last_search = NoStats
  /\ CallIdle

\* MCTSSearcher.create_root_node
CreateRootNode ==
  /\ searchPc = "start"
  /\ LET root == expand(game, <<NewNode(0, 0, <<>>)>>, 1)
     IN /\ nodes' = root
        /\ searchPc' = IF root[1].children = <<>> THEN "raised" ELSE "searching"
  /\ UNCHANGED <<game, num_simulations, simsRun, lastPath, lastResult, rolled,
                 move_selector, bestChild, rollouts, mmVars, callVars, cacheVars>>

\* One iteration of the loop of search: the countdown to the next save of the
\* cache and single_step (selection, expansion, simulation, backpropagation).
SingleStep ==
  /\ searchPc = "searching"
  /\ simsRun < num_simulations
  /\ LET walked == SelectionPath(game, nodes, <<1>>)
         current == walked[Len(walked)]
         expanded == Expansion(game, nodes, current)
     IN \E chosen \in SimulationNodes(game, expanded, current),
           res \in RolloutResults :
          LET s == simulate(game, transposition_table, expanded[chosen], res)
              cached == transposition_table.kind # "None"
          IN /\ nodes' = backpropagate(expanded, chosen, s.result)
             /\ lastPath' = IF chosen = current THEN walked
                            ELSE Append(walked, chosen)
             /\ lastResult' = s.result
             /\ rolled' = s.rolled
             /\ transposition_table' = s.table
             /\ rollouts' =
                  IF s.rolled /\ cached
                  THEN Append(rollouts, [fen |-> fen(expanded[chosen].pos),
                                         result |-> s.result])
                  ELSE rollouts
             /\ remaining_simulations_until_cache_persist' =
                  IF cached THEN remaining_simulations_until_cache_persist - 1
                  ELSE remaining_simulations_until_cache_persist
             /\ sims_since_save' =
                  IF cached THEN sims_since_save + 1 ELSE sims_since_save
  /\ simsRun' = simsRun + 1
  /\ UNCHANGED <<game, searchPc, num_simulations, move_selector, bestChild,
                 mmVars, callVars, cache_file, ctorPc>>

\* The test after the loop of search that never lets the cache be saved.
ShouldPersistLate(table, remaining) == table.kind # "None" /\ remaining < 0

\* The test after the loop of search: there is a cache and the countdown has
\* run out.
ShouldPersist(table, remaining) == table.kind # "None" /\ remaining <= 0

\* The end of search: the cache is saved when the countdown has run out.
FinishSearch ==
  /\ searchPc = "searching"
  /\ simsRun = num_simulations
  /\ searchPc' = "done"
  /\ IF ShouldPersist(transposition_table,
                      remaining_simulations_until_cache_persist)
     THEN /\ cache_file' = save_cache(cache_file, transposition_table)
          /\ remaining_simulations_until_cache_persist' = CachePersistInterval
          /\ sims_since_save' = 0
     ELSE UNCHANGED <<cache_file, remaining_simulations_until_cache_persist,
                      sims_since_save>>
  /\ UNCHANGED <<game, nodes, num_simulations, simsRun, lastPath, lastResult,
                 rolled, move_selector, bestChild, rollouts, mmVars, callVars,
                 transposition_table, ctorPc>>

\* MCTSSearcher.get_best_child
GetBestChild ==
  /\ searchPc = "done"
  /\ bestChild' = get_best_child(move_selector, nodes)
  /\ searchPc' = "chosen"
  /\ UNCHANGED <<game, nodes, num_simulations, simsRun, lastPath, lastResult,
                 rolled, move_selector, rollouts, mmVars, callVars, cacheVars>>

NextMCTS == CreateRootNode \/ SingleStep \/ FinishSearch \/ GetBestChild

SpecMCTS == InitMCTS /\ [][NextMCTS]_vars

\* C3: from the creation of the root on, the root has been visited once for
\* each simulation search has run, and when search has returned that number is
\* num_simulations, whether or not the simulations used the cache.
RootVisitsEqualSimulations ==
  searchPc \in {"searching", "done", "chosen"} =>
    /\ nodes[1].visits = simsRun
    /\ searchPc # "searching" => simsRun = num_simulations

\* search has returned after at least two simulations, the last of them of a
\* node two plies below the root.
RootVisitsWitness ==
  /\ searchPc = "done"
  /\ simsRun >= 2
  /\ Len(lastPath) >= 3
  /\ nodes[1].visits = num_simulations

\* The number of parent links from node from up to node j, -1 when j is not
\* on the way to the root.
RECURSIVE LinksAbove(_, _, _)
LinksAbove(ns, from, j) ==
  IF from = 0 THEN -1
  ELSE IF from = j THEN 0
  ELSE LET r == LinksAbove(ns, ns[from].parent, j)
       IN IF r < 0 THEN -1 ELSE r + 1

\* (-1)^d
Sign(d) == IF d % 2 = 0 THEN 1 ELSE -1

\* The visits and the value a node had before a step; a node the step created
\* had none.
Before(j) ==
  IF j <= Len(nodes) THEN [visits |-> nodes[j].visits, value |-> nodes[j].value]
  ELSE [visits |-> 0, value |-> 0]

\* C4: a simulation's backpropagate(result) from the simulated node adds one
\* visit to each node on the parent chain from that node to the root, adds
\* (-1)^d * result to the value of the node d links above it, and leaves the
\* visits and the value of every other node as they were; the chain is the path
\* the simulation took.
BackpropagateUpdatesPath ==
  [][simsRun' = simsRun + 1 =>
       LET leaf == lastPath'[Len(lastPath')]
       IN /\ \A k \in 1..Len(lastPath') :
               LinksAbove(nodes', leaf, lastPath'[k]) = Len(lastPath') - k
          /\ lastPath'[1] = 1
          /\ \A j \in 1..Len(nodes') :
               LET d == LinksAbove(nodes', leaf, j)
               IN IF d >= 0
                  THEN /\ nodes'[j].visits = Before(j).visits + 1
                       /\ nodes'[j].value =
                            Before(j).value + Sign(d) * lastResult'
                  ELSE /\ nodes'[j].visits = Before(j).visits
                       /\ nodes'[j].value = Before(j).value]_vars

\* A rollout two plies below the root gave a result other than 0, and the tree
\* has nodes off its path.
BackpropagateWitness ==
  /\ searchPc = "searching"
  /\ simsRun >= 2
  /\ Len(lastPath) >= 3
  /\ rolled
  /\ lastResult # 0
  /\ Len(nodes) > Len(lastPath)

\* The node a simulation that went through node p, at place k of its path,
\* went to next.
WentTo(k) == lastPath'[k + 1]

\* Node c had no visit before the step.
WasUnvisited(c) == Before(c).visits = 0

\* C6 (as the code has it): when a simulation's selection goes through a
\* node whose moves all have children (is_expanded) and which has a child
\* without a visit, it goes to the first such child.
FullyExpandedVisitsZeroFirst ==
  [][simsRun' = simsRun + 1 =>
       \A k \in 1..(Len(lastPath') - 1) :
         LET p == lastPath'[k]
         IN (p <= Len(nodes) /\ nodes[p].is_expanded
               /\ Unvisited(nodes, p) # <<>>)
              => WentTo(k) = Head(Unvisited(nodes, p))]_vars

\* The second simulation from a root of three moves has gone to the second
\* child, and the third still has no visit.
ZeroVisitWitness ==
  /\ searchPc = "searching"
  /\ simsRun = 2
  /\ NumMoves(game, <<>>) = 3
  /\ nodes[1].is_expanded
  /\ lastPath[2] = nodes[1].children[2]
  /\ nodes[nodes[1].children[3]].visits = 0

\* C6: whenever a node has a child without a visit, the next simulation that
\* goes through the node goes to a child without a visit.
AnyNodeVisitsZeroFirst ==
  [][simsRun' = simsRun + 1 =>
       \A k \in 1..(Len(lastPath') - 1) :
         LET p == lastPath'[k]
         IN (p <= Len(nodes) /\ Unvisited(nodes, p) # <<>>)
              => WasUnvisited(WentTo(k))]_vars

\* The place of node c among the children of the root.
RECURSIVE PlaceFrom(_, _, _)
PlaceFrom(children, c, k) ==
  IF k > Len(children) THEN 0
  ELSE IF children[k] = c THEN k ELSE PlaceFrom(children, c, k + 1)

\* The key of child a is smaller than (or, when orEqual, at most) the key of
\* child b under the strategy of the searcher.
KeyBelow(a, b, orEqual) ==
  LET ka == IF move_selector = "VISIT" THEN nodes[a].visits
            ELSE nodes[a].value * nodes[b].visits
      kb == IF move_selector = "VISIT" THEN nodes[b].visits
            ELSE nodes[b].value * nodes[a].visits
  IN IF orEqual THEN ka <= kb ELSE ka < kb

\* C7: when get_best_child returns after the search, it returns the move, the
\* visits and the value of a child of the root whose key (visits under VISIT,
\* value / visits under ACTION) no child exceeds and no earlier child equals.
BestChildIsFirstMaximum ==
  (searchPc = "chosen" /\ ~bestChild.raised) =>
    LET children == nodes[1].children
        place == PlaceFrom(children, bestChild.node, 1)
    IN /\ place > 0
       /\ bestChild.move = nodes[bestChild.node].move
       /\ bestChild.visits = nodes[bestChild.node].visits
       /\ bestChild.value = nodes[bestChild.node].value
       /\ \A k \in 1..Len(children) :
            KeyBelow(children[k], bestChild.node, k >= place)

\* get_best_child has returned a child under ACTION and a later child has the
\* same mean value from other numbers.
BestChildWitness ==
  /\ searchPc = "chosen"
  /\ ~bestChild.raised
  /\ move_selector = "ACTION"
  /\ \E k \in 1..Len(nodes[1].children) :
       LET c == nodes[1].children[k]
       IN /\ k > PlaceFrom(nodes[1].children, bestChild.node, 1)
          /\ nodes[c].value * bestChild.visits = bestChild.value * nodes[c].visits

\* The results of the rollouts of fingerprint f so far.
ResultsOf(f) ==
  LET Same(r) == r.fen = f
      hits == SelectSeq(rollouts, Same)
  IN [i \in 1..Len(hits) |-> hits[i].result]

\* C8: with the cache enabled, after k rollouts of positions of one
\* fingerprint the entry of the fingerprint holds visits = k and the sum of
\* the k results as its value.
CacheEntryAccumulates ==
  \A i \in 1..Len(rollouts) :
    LET f == rollouts[i].fen
        at == KeyIndex(transposition_table.data, f)
    IN /\ at # 0
       /\ transposition_table.data[at].visits = Len(ResultsOf(f))
       /\ transposition_table.data[at].value = SumSeq(ResultsOf(f))

(***************************************************************************)
(* The specification of a Node used on its own: a root node of a game,     *)
(* then expand and backpropagate called on any node of the tree, in any    *)
(* order.                                                                  *)
(***************************************************************************)
MaxNodes == 6
MaxVisits == 2

NodeGames ==
  {[moves |-> m, mate |-> FALSE, mated |-> {}] :
     m \in {<<1>>, <<2>>, <<2, 2>>, <<5>>, <<9>>}}

InitNode ==
  /\ game \in NodeGames
  /\ nodes = <<NewNode(0, 0, <<>>)>>
  /\ searchPc = "node"
  /\ num_simulations = 0
  /\ simsRun = 0
  /\ lastPath = <<>>
  /\ lastResult = 0
  /\ rolled = FALSE
  /\ move_selector = "ACTION"
  /\ bestChild = NoBest
  /\ rollouts = <<>>
  /\ CacheIdle
  /\ board = Position(WHITE, <<>>, NotFinished, {}, 0)
  /\ maxdepth = 1
  /\ mmPc = "idle"
  /\ mmMove = None
  /\ best_value = None
  /\ last_search = NoStats
  /\ CallIdle

\* node.expand()
ExpandNode ==
  /\ searchPc = "node"
  /\ Len(nodes) <= MaxNodes
  /\ \E i \in 1..Len(nodes) : nodes' = expand(game, nodes, i)
  /\ UNCHANGED <<game, searchPc, num_simulations, simsRun, lastPath, lastResult,
                 rolled, move_selector, bestChild, rollouts, mmVars, callVars, cacheVars>>

\* node.backpropagate(result)
BackpropagateNode ==
  /\ searchPc = "node"
  /\ nodes[1].visits < MaxVisits
  /\ \E i \in 1..Len(nodes), res \in RolloutResults :
       /\ nodes' = backpropagate(nodes, i, res)
       /\ lastResult' = res
  /\ UNCHANGED <<game, searchPc, num_simulations, simsRun, lastPath, rolled,
                 move_selector, bestChild, rollouts, mmVars, callVars, cacheVars>>

NextNode == ExpandNode \/ BackpropagateNode

SpecNode == InitNode /\ [][NextNode]_vars

\* C5: a node never has more children than its position has legal moves, and
\* no step takes a child away from a node.
ChildrenWithinLegalMoves ==
  [][\A i \in 1..Len(nodes) :
       /\ i <= Len(nodes')
       /\ Len(nodes'[i].children) >= Len(nodes[i].children)
       /\ Len(nodes'[i].children) <= NumMoves(game, nodes'[i].pos)]_vars

(***************************************************************************)
(* The specification of the cache over the runs of the program: a searcher *)
(* is constructed, its simulations fill the table, the table is saved, the *)
(* process ends; between and during runs the file can be removed, cut,     *)
(* damaged or lose its read permission.                                    *)
(***************************************************************************)
CacheGame == [moves |-> <<1, 1>>, mate |-> FALSE, mated |-> {}]

\* The positions of the game that are rolled out.
CachePositions == {<<>>, <<1>>}

InitCache ==
  /\ game = CacheGame
  /\ cache_file = NoFile
  /\ transposition_table = NoTable
  /\ remaining_simulations_until_cache_persist = CachePersistInterval
  /\ ctorPc = "none"
  /\ sims_since_save = 0
  /\ nodes = <<>>
  /\ searchPc = "cache"
  /\ num_simulations = 0
  /\ simsRun = 0
  /\ lastPath = <<>>
  /\ lastResult = 0
  /\ rolled = FALSE
  /\ move_selector = "ACTION"
  /\ bestChild = NoBest
  /\ rollouts = <<>>
  /\ board = Position(WHITE, <<>>, NotFinished, {}, 0)
  /\ maxdepth = 1
  /\ mmPc = "idle"
  /\ mmMove = None
  /\ best_value = None
  /\ last_search = NoStats
  /\ CallIdle

\* MCTSSearcher(move_selection, use_pruning)
Construct ==
  /\ ctorPc \in {"none", "raised"}
  /\ \E use_pruning \in BOOLEAN :
       LET r == NewSearcher(use_pruning, cache_file)
       IN /\ transposition_table' = r.table
          /\ ctorPc' = IF r.raised # "" THEN "raised"
                       ELSE IF use_pruning THEN "loaded" ELSE "live"
  /\ remaining_simulations_until_cache_persist' = CachePersistInterval
  /\ sims_since_save' = 0
  /\ UNCHANGED <<cache_file, treeVars, mmVars, callVars>>

\* searcher.simulate(node) on a position of the game
Simulate ==
  /\ ctorPc \in {"loaded", "live"}
  /\ \E pos \in CachePositions, res \in RolloutResults :
       LET s == simulate(game, transposition_table, NewNode(0, 0, pos), res)
       IN /\ transposition_table' = s.table
          /\ lastResult' = s.result
          /\ rolled' = s.rolled
  /\ ctorPc' = "live"
  /\ UNCHANGED <<cache_file, remaining_simulations_until_cache_persist,
                 sims_since_save, game, nodes, searchPc, num_simulations, simsRun, lastPath,
                 move_selector, bestChild, rollouts, mmVars, callVars>>

\* searcher.save_cache(), as MCTSAgent.close calls it
SaveCache ==
  /\ ctorPc \in {"loaded", "live"}
  /\ cache_file' = save_cache(cache_file, transposition_table)
  /\ sims_since_save' = 0
  /\ UNCHANGED <<transposition_table, remaining_simulations_until_cache_persist,
                 ctorPc, treeVars, mmVars, callVars>>

\* The process ends.
Exit ==
  /\ ctorPc \in {"loaded", "live"}
  /\ ctorPc' = "none"
  /\ transposition_table' = NoTable
  /\ UNCHANGED <<cache_file, remaining_simulations_until_cache_persist,
                 sims_since_save, treeVars, mmVars, callVars>>

\* The file is removed.
RemoveFile ==
  /\ cache_file.kind = "file"
  /\ cache_file' = NoFile
  /\ UNCHANGED <<transposition_table, remaining_simulations_until_cache_persist,
                 ctorPc, sims_since_save, treeVars, mmVars, callVars>>

\* The file is cut short (a write that did not finish).
TruncateFile ==
  /\ cache_file.kind = "file"
  /\ \E k \in 0..(Len(cache_file.bytes) - 1) :
       cache_file' = [cache_file EXCEPT !.bytes = SubSeq(@, 1, k)]
  /\ UNCHANGED <<transposition_table, remaining_simulations_until_cache_persist,
                 ctorPc, sims_since_save, treeVars, mmVars, callVars>>

\* A frame of the file is overwritten with something else.
CorruptFile ==
  /\ cache_file.kind = "file"
  /\ \E k \in 1..Len(cache_file.bytes) :
       /\ cache_file.bytes[k].op # "garbage"
       /\ cache_file' = [cache_file EXCEPT !.bytes[k].op = "garbage"]
  /\ UNCHANGED <<transposition_table, remaining_simulations_until_cache_persist,
                 ctorPc, sims_since_save, treeVars, mmVars, callVars>>

\* The read permission of the file is taken away or given back.
ChmodFile ==
  /\ cache_file.kind = "file"
  /\ cache_file' = [cache_file EXCEPT !.readable = ~@]
  /\ UNCHANGED <<transposition_table, remaining_simulations_until_cache_persist,
                 ctorPc, sims_since_save, treeVars, mmVars, callVars>>

NextCache ==
  \/ Construct
  \/ Simulate
  \/ SaveCache
  \/ Exit
  \/ RemoveFile
  \/ TruncateFile
  \/ CorruptFile
  \/ ChmodFile

SpecCache == InitCache /\ [][NextCache]_vars

\* The fingerprint -> (value, visits) map of a table.
EntriesOf(table) == {table.data[i] : i \in 1..Len(table.data)}

LoadCacheNeverFatal == ctorPc # "raised"

(***************************************************************************)
(* The specification of a searcher over the search calls of its life: an   *)
(* agent calls search again and again on the positions of its games, each  *)
(* call with its own budget, and closes the searcher at the end. The       *)
(* positions searched here end the game with every move, so no rollout     *)
(* fills the table; the countdown to the next save runs as in any search.  *)
(***************************************************************************)
PersistGames ==
  {[moves |-> <<2>>, mate |-> k, mated |-> {}] : k \in BOOLEAN}

InitPersist ==
  /\ game \in PersistGames
  /\ num_simulations \in 1..MaxSims
  /\ move_selector = "ACTION"
  /\ cache_file = NoFile
  /\ \E use_pruning \in BOOLEAN :
       transposition_table = NewSearcher(use_pruning, cache_file).table
  /\ remaining_simulations_until_cache_persist = CachePersistInterval
  /\ ctorPc = "constructed"
  /\ sims_since_save = 0
  /\ nodes = <<>>
  /\ searchPc = "start"
  /\ simsRun = 0
  /\ lastPath = <<>>
  /\ lastResult = 0
  /\ rolled = FALSE
  /\ bestChild = NoBest
  /\ rollouts = <<>>
  /\ board = Position(WHITE, <<>>, NotFinished, {}, 0)
  /\ maxdepth = 1
  /\ mmPc = "idle"
  /\ mmMove = None
  /\ best_value = None
  /\ last_search = NoStats
  /\ CallIdle

\* The agent is asked for its next move: a new root, a new budget.
NextSearch ==
  /\ searchPc = "done"
  /\ searchPc' = "start"
  /\ nodes' = <<>>
  /\ simsRun' = 0
  /\ lastPath' = <<>>
  /\ lastResult' = 0
  /\ num_simulations' \in 1..MaxSims
  /\ UNCHANGED <<game, rolled, move_selector, bestChild, rollouts, mmVars, callVars,
                 cacheVars>>

\* MCTSAgent.close
Close ==
  /\ searchPc \in {"start", "done"}
  /\ cache_file' = save_cache(cache_file, transposition_table)
  /\ sims_since_save' = 0
  /\ searchPc' = "closed"
  /\ ctorPc' = "closed"
  /\ UNCHANGED <<game, nodes, num_simulations, simsRun, lastPath, lastResult,
                 rolled, move_selector, bestChild, rollouts, mmVars, callVars,
                 transposition_table, remaining_simulations_until_cache_persist>>

NextPersist ==
  \/ CreateRootNode
  \/ SingleStep
  \/ FinishSearch
  \/ NextSearch
  \/ Close

SpecPersist == InitPersist /\ [][NextPersist]_vars

\* C11 (as the code has it): with the cache enabled, the countdown is looked
\* at only when a search call ends: between search calls fewer than
\* cache_persist_interval simulations have run since the last save, and during
\* a call the number exceeds that by at most the simulations of the call; the
\* call in which the countdown runs out ends by saving the table, and close
\* leaves the table in the file.
PersistedAtEndOfSearch ==
  /\ transposition_table.kind # "None" =>
       /\ sims_since_save < CachePersistInterval + simsRun
       /\ searchPc \in {"start", "done"} =>
            /\ sims_since_save < CachePersistInterval
            /\ remaining_simulations_until_cache_persist
                 = CachePersistInterval - sims_since_save
       /\ (searchPc = "done" /\ sims_since_save = 0 /\ simsRun > 0) =>
            cache_file = save_cache(cache_file, transposition_table)
  /\ ctorPc = "closed" =>
       /\ cache_file = save_cache(cache_file, transposition_table)
       /\ sims_since_save = 0

\* A search call has ended by saving the table: its last simulations ran
\* after the countdown had run out.
PersistedWitness ==
  /\ searchPc = "done"
  /\ transposition_table.kind # "None"
  /\ simsRun >= 2
  /\ sims_since_save = 0
  /\ cache_file.kind = "file"

\* C11: with the cache enabled, never more than cache_persist_interval
\* simulations have run since the last save (or since the start).
SavedEveryInterval ==
  transposition_table.kind # "None" => sims_since_save <= CachePersistInterval

(***************************************************************************)
(* agents/mcts/move_selection.py: aggregate_results. A result is the tuple *)
(* (action, visits, value) a worker reports for its best child; a dict is  *)
(* a function on its keys.                                                 *)
(***************************************************************************)
\* d[k] = x, whatever d held for k
DictPut(d, k, x) == [j \in DOMAIN d \cup {k} |-> IF j = k THEN x ELSE d[j]]

\* d[k] = d.get(k, 0) + x
DictAdd(d, k, x) ==
  [j \in DOMAIN d \cup {k} |->
     IF j = k THEN (IF k \in DOMAIN d THEN d[k] ELSE 0) + x ELSE d[j]]

EmptyDict == [j \in {} |-> 0]

\* The loop of MoveSelectorByActionValue.aggregate_results over results[idx..]:
\* move_visits and move_values.
RECURSIVE ActionValueLoop(_, _, _, _)
ActionValueLoop(results, idx, move_visits, move_values) ==
  IF idx > Len(results)
  THEN [move_visits |-> move_visits, move_values |-> move_values]
  ELSE LET r == results[idx]
       IN IF r.move # "" /\ r.visits > 0
          THEN ActionValueLoop(results, idx + 1,
                               DictAdd(move_visits, r.move, r.visits),
                               DictAdd(move_values, r.move, r.value))
          ELSE ActionValueLoop(results, idx + 1, move_visits, move_values)

\* MoveSelectorByActionValue.aggregate_results: each move with its quotient
\* move_values / move_visits, kept as the fraction.
ActionValueAggregate(results) ==
  LET t == ActionValueLoop(results, 1, EmptyDict, EmptyDict)
  IN [mv \in DOMAIN t.move_visits |->
        [num |-> t.move_values[mv], den |-> t.move_visits[mv]]]

\* The filter of the sum in MoveSelectorByVisitCount.aggregate_results,
\* "if action == action": both names are the action of the key.
SameAction(action, entry) == action = action

\* sum(visit_count for _, visit_count, _ in results if ...) for a key
RECURSIVE VisitSum(_, _, _)
VisitSum(results, idx, action) ==
  IF idx > Len(results) THEN 0
  ELSE (IF SameAction(action, results[idx]) THEN results[idx].visits ELSE 0)
         + VisitSum(results, idx + 1, action)

\* MoveSelectorByVisitCount.aggregate_results
VisitCountAggregate(results) ==
  [action \in {results[i].move : i \in 1..Len(results)} |->
     VisitSum(results, 1, action)]

\* MCTSSearcher.aggregate_results
aggregate_results(strategy, results) ==
  IF strategy = "VISIT" THEN VisitCountAggregate(results)
  ELSE ActionValueAggregate(results)

(***************************************************************************)
(* The specification of aggregate_results: the workers' results are given, *)
(* the searcher merges them.                                               *)
(***************************************************************************)
MaxResults == 3
MaxWorkerVisits == 2

AggMoves == {"e2e4", "d2d4"}

\* What a worker can report for a move: a child without visits has value 0,
\* a visited child has a value (here -1, 0 or 1).
ProducibleResults ==
  {[move |-> mv, visits |-> n, value |-> v] :
     mv \in AggMoves, n \in 1..MaxWorkerVisits, v \in -1..1}
  \cup {[move |-> mv, visits |-> 0, value |-> 0] : mv \in AggMoves}

ResultLists ==
  UNION {[1..n -> ProducibleResults] : n \in 0..MaxResults}

InitAggregate ==
  /\ call \in {[fn |-> "aggregate_results", strategy |-> st, results |-> rs] :
                 st \in {"VISIT", "ACTION"}, rs \in ResultLists}
  /\ outcome = NoOutcome
  /\ TreeIdle
  /\ CacheIdle
  /\ board = Position(WHITE, <<>>, NotFinished, {}, 0)
  /\ maxdepth = 1
  /\ mmPc = "idle"
  /\ mmMove = None
  /\ best_value = None
  /\ last_search = NoStats

AggregateResults ==
  /\ call.fn = "aggregate_results"
  /\ outcome = NoOutcome
  /\ outcome' = [kind |-> "returned",
                 value |-> aggregate_results(call.strategy, call.results)]
  /\ UNCHANGED <<call, mmVars, treeVars, cacheVars>>

NextAggregate == AggregateResults

SpecAggregate == InitAggregate /\ [][NextAggregate]_vars

\* The entries of a result list for a move.
EntriesFor(results, mv) == {i \in 1..Len(results) : results[i].move = mv}

\* The sum of f over a finite set of indices.
RECURSIVE SumOver(_, _, _)
SumOver(results, idxs, field) ==
  IF idxs = {} THEN 0
  ELSE LET i == CHOOSE j \in idxs : TRUE
       IN (IF field = "visits" THEN results[i].visits ELSE results[i].value)
            + SumOver(results, idxs \ {i}, field)

\* C12: merged by action value, the moves of the result are those some worker
\* reports with visits > 0, and each is mapped to the sum of its values over
\* all workers divided by the sum of its visits over all workers.
ActionValuesMerged ==
  (outcome.kind = "returned" /\ call.strategy = "ACTION") =>
    /\ DOMAIN outcome.value =
         {call.results[i].move :
            i \in {j \in 1..Len(call.results) : call.results[j].visits > 0}}
    /\ \A mv \in DOMAIN outcome.value :
         LET entries == EntriesFor(call.results, mv)
             visits == SumOver(call.results, entries, "visits")
             values == SumOver(call.results, entries, "value")
         IN /\ visits > 0
            /\ outcome.value[mv].num * visits = values * outcome.value[mv].den

\* Two workers report the same move with different visits and values, a third
\* result is for another move.
ActionValuesWitness ==
  /\ outcome.kind = "returned"
  /\ call.strategy = "ACTION"
  /\ Len(call.results) = 3
  /\ \E i, j, k \in 1..3 :
       /\ i # j
       /\ call.results[i].move = call.results[j].move
       /\ call.results[k].move # call.results[i].move
       /\ call.results[i].visits > call.results[j].visits
       /\ call.results[j].visits > 0
       /\ call.results[i].value # call.results[j].value
       /\ call.results[k].visits > 0

\* C13: merged by visit count, each action of the results is mapped to the
\* sum of the visit counts of the entries of that action.
VisitCountsMerged ==
  (outcome.kind = "returned" /\ call.strategy = "VISIT") =>
    /\ DOMAIN outcome.value =
         {call.results[i].move : i \in 1..Len(call.results)}
    /\ \A a \in DOMAIN outcome.value :
         outcome.value[a] =
           SumOver(call.results, EntriesFor(call.results, a), "visits")

(***************************************************************************)
(* parallel.py: ParallelWorkerManager. A work item stands for the worker   *)
(* run on it: the worker returns a result ("ok"), returns nothing          *)
(* ("none") or raises ("raise").                                           *)
(***************************************************************************)
\* The extra simulation goes to the last workers.
GetsExtraLast(i, extra_sims, num_workers) == i >= num_workers - extra_sims

\* 1 if i < extra_sims else 0, for worker i of range(num_workers)
GetsExtra(i, extra_sims, num_workers) == i < extra_sims

\* The loop of distribute_simulations from worker i on.
RECURSIVE DistributeLoop(_, _, _, _)
DistributeLoop(i, base_sims, extra_sims, num_workers) ==
  IF i >= num_workers THEN <<>>
  ELSE LET worker_sims ==
             base_sims + (IF GetsExtra(i, extra_sims, num_workers) THEN 1 ELSE 0)
           rest == DistributeLoop(i + 1, base_sims, extra_sims, num_workers)
       IN IF worker_sims > 0 THEN <<worker_sims>> \o rest ELSE rest

\* ParallelWorkerManager.distribute_simulations
distribute_simulations(total_sims, num_workers) ==
  DistributeLoop(0, total_sims \div num_workers, total_sims % num_workers,
                 num_workers)

\* worker_func(args): what the call gives for work item i.
WorkerResult(worker_args, i) ==
  IF worker_args[i] = "ok" THEN [kind |-> "result", worker |-> i]
  ELSE IF worker_args[i] = "none" THEN [kind |-> "None", worker |-> i]
  ELSE [kind |-> "exception", worker |-> i]

\* The loop over as_completed(futures), the futures completing in the order
\* done[idx..]: a future that raises is skipped, a result that is falsy too.
RECURSIVE CollectLoop(_, _, _)
CollectLoop(worker_args, done, idx) ==
  IF idx > Len(done) THEN <<>>
  ELSE LET r == WorkerResult(worker_args, done[idx])
           rest == CollectLoop(worker_args, done, idx + 1)
       IN IF r.kind = "result" THEN <<r>> \o rest ELSE rest

\* ParallelWorkerManager.execute_parallel_work, the futures completing in the
\* order done: the list returned, or the exception that leaves the call.
execute_parallel_work(worker_args, done) ==
  IF worker_args = <<>> THEN [kind |-> "returned", value |-> <<>>]
  ELSE IF Len(worker_args) = 1
  THEN LET r == WorkerResult(worker_args, 1)
       IN IF r.kind = "exception" THEN [kind |-> "raised", value |-> <<>>]
          ELSE [kind |-> "returned", value |-> <<r>>]
  ELSE [kind |-> "returned", value |-> CollectLoop(worker_args, done, 1)]

\* The orders in which n futures can complete.
CompletionOrders(n) ==
  {f \in [1..n -> 1..n] : \A i, j \in 1..n : f[i] = f[j] => i = j}

(***************************************************************************)
(* The specification of the parallel helpers: one call of                  *)
(* distribute_simulations or of execute_parallel_work.                     *)
(***************************************************************************)
MaxTotal == 12
MaxWorkers == 5
MaxWorkItems == 3

WorkLists ==
  UNION {[1..n -> {"ok", "none", "raise"}] : n \in 0..MaxWorkItems}

InitParallel ==
  /\ call \in
       {[fn |-> "distribute_simulations", total_sims |-> t, num_workers |-> w] :
          t \in 0..MaxTotal, w \in 1..MaxWorkers}
       \cup {[fn |-> "execute_parallel_work", worker_args |-> a] :
               a \in WorkLists}
  /\ outcome = NoOutcome
  /\ TreeIdle
  /\ CacheIdle
  /\ board = Position(WHITE, <<>>, NotFinished, {}, 0)
  /\ maxdepth = 1
  /\ mmPc = "idle"
  /\ mmMove = None
  /\ best_value = None
  /\ last_search = NoStats

DistributeSimulations ==
  /\ call.fn = "distribute_simulations"
  /\ outcome = NoOutcome
  /\ outcome' = [kind |-> "returned",
                 value |-> distribute_simulations(call.total_sims,
                                                  call.num_workers)]
  /\ UNCHANGED <<call, mmVars, treeVars, cacheVars>>

ExecuteParallelWork ==
  /\ call.fn = "execute_parallel_work"
  /\ outcome = NoOutcome
  /\ \E done \in CompletionOrders(Len(call.worker_args)) :
       outcome' = execute_parallel_work(call.worker_args, done)
  /\ UNCHANGED <<call, mmVars, treeVars, cacheVars>>

NextParallel == DistributeSimulations \/ ExecuteParallelWork

SpecParallel == InitParallel /\ [][NextParallel]_vars

\* C14: the batch sizes distribute_simulations returns sum to total_sims, no
\* two of them differ by more than 1, and no batch is larger than one before
\* it (the larger batches come first).
SimulationsSplitEvenly ==
  (call.fn = "distribute_simulations" /\ outcome.kind = "returned") =>
    LET d == outcome.value
    IN /\ SumSeq(d) = call.total_sims
       /\ \A i, j \in 1..Len(d) : d[i] - d[j] <= 1
       /\ \A i, j \in 1..Len(d) : i < j => d[i] >= d[j]

\* A budget that does not divide among several workers has been split.
SimulationsSplitWitness ==
  /\ call.fn = "distribute_simulations"
  /\ outcome.kind = "returned"
  /\ call.num_workers >= 3
  /\ call.total_sims > call.num_workers
  /\ call.total_sims % call.num_workers # 0

\* The work items whose worker returned a result.
Succeeded(worker_args) == {i \in 1..Len(worker_args) : worker_args[i] = "ok"}

\* The workers whose results are in a list.
Collected(results) == {results[i].worker : i \in 1..Len(results)}

\* C15: for a non-empty list of work items, execute_parallel_work returns
\* without raising, whichever workers raise, and the results of the workers
\* that succeeded are in the list.
FailedWorkersAreDropped ==
  (call.fn = "execute_parallel_work" /\ outcome # NoOutcome
     /\ call.worker_args # <<>>) =>
    /\ outcome.kind = "returned"
    /\ \A i \in Succeeded(call.worker_args) : i \in Collected(outcome.value)

\* C16: execute_parallel_work returns a result when at least one worker
\* succeeded, and raises when there are work items and no worker succeeded.
FailsOnlyIfNoWorkerSucceeded ==
  (call.fn = "execute_parallel_work" /\ outcome # NoOutcome
     /\ call.worker_args # <<>>) =>
    IF \E i \in 1..Len(call.worker_args) : call.worker_args[i] # "raise"
    THEN outcome.kind = "returned"
    ELSE outcome.kind = "raised"

(***************************************************************************)
(* The entry of the two agents: MinimaxAgent.get_move and                  *)
(* MCTSAgent.get_move on positions with no, one or several legal moves.    *)
(***************************************************************************)
\* MCTSSearcher.get_legal_moves(board): the legal moves, or the ValueError it
\* raises.
get_legal_moves(g) ==
  IF GameOver(g, <<>>)
  THEN [kind |-> "raised", error |-> "ValueError",
        msg |-> "Cannot search from terminal position", moves |-> <<>>]
  ELSE IF LegalMoves(g, <<>>) = <<>>
  THEN [kind |-> "raised", error |-> "ValueError",
        msg |-> "No legal moves available", moves |-> <<>>]
  ELSE [kind |-> "returned", error |-> "none", msg |-> "",
        moves |-> LegalMoves(g, <<>>)]

\* next_board.evaluation() after the only legal move: 0.0 while the game goes on.
NextEvaluation(g, move) ==
  IF GameOver(g, <<move>>) THEN evaluation(g, <<move>>) ELSE 0

\* MCTSSearcher.should_return_single_move(board): (move, value) when there is
\* exactly one legal move, None when there are several.
should_return_single_move(g) ==
  LET legal == get_legal_moves(g)
  IN IF legal.kind = "raised"
     THEN [kind |-> "raised", error |-> legal.error, msg |-> legal.msg,
           move |-> None, value |-> None, searched |-> FALSE]
     ELSE IF Len(legal.moves) = 1
     THEN [kind |-> "returned", error |-> "none", msg |-> "",
           move |-> legal.moves[1], value |-> NextEvaluation(g, legal.moves[1]),
           searched |-> FALSE]
     ELSE [kind |-> "returned", error |-> "none", msg |-> "",
           move |-> None, value |-> None, searched |-> FALSE]

\* material_balance(*args) of evaluation.py: the function has the two required
\* parameters board and perspective_color; a call that passes another number
\* of arguments raises TypeError before its body runs.
MaterialBalanceCall(args) ==
  IF Len(args) = Len(<<"board", "perspective_color">>)
  THEN "returned" ELSE "TypeError"

\* MCTSAgent.get_move(board). Its first statement calls material_balance(board).
mcts_get_move(g) ==
  LET single == should_return_single_move(g)
  IN IF MaterialBalanceCall(<<"board">>) = "TypeError"
     THEN [kind |-> "raised", error |-> "TypeError",
           msg |-> "material_balance() missing 1 required positional argument",
           move |-> None, value |-> None, searched |-> FALSE]
     ELSE IF single.kind = "raised" \/ single.move # None THEN single
     ELSE \* create_root_node, search and get_best_child: the actions
          \* CreateRootNode, SingleStep, FinishSearch and GetBestChild.
          [kind |-> "search", error |-> "none", msg |-> "",
           move |-> None, value |-> None, searched |-> TRUE]

\* MinimaxAgent.get_move(board) as a call: what it returns or raises.
minimax_get_move(b, depth) ==
  LET r == get_move(b, depth)
  IN IF r.error # "none"
     THEN [kind |-> "raised", error |-> r.error,
           msg |-> "list index out of range",
           move |-> None, value |-> None, searched |-> r.searched]
     ELSE [kind |-> "returned", error |-> "none", msg |-> "",
           move |-> r.move, value |-> r.value, searched |-> r.searched]

\* The positions MinimaxAgent is asked about: a root with both moves of the
\* shape or with one of them illegal, winning or hopelessly lost for the side
\* to move, and a root that is a checkmate or a stalemate.
AgentBoards ==
  {[Position(t, s, NotFinished, {}, e) EXCEPT !.illegal = i] :
     t \in BOOLEAN, s \in [{8, 12} -> Scores],
     e \in {-ResignThreshold - 1, 0}, i \in {{}, {2}, {3}}}
  \cup
  {Position(t, [n \in {} |-> 0], f, {}, 0) :
     t \in BOOLEAN,
     f \in {[mate |-> {Root}, stale |-> {}], [mate |-> {}, stale |-> {Root}]}}

\* The positions the MCTS agent is asked about: a finished game, one legal
\* move (the game over after it or not), several legal moves; score is the
\* evaluator's score of the position for the side to move, level or hopeless.
AgentGames ==
  {[moves |-> m, mate |-> k, mated |-> {}, score |-> e] :
     m \in {<<>>, <<1>>, <<1, 2>>, <<2>>}, k \in BOOLEAN,
     e \in {-ResignThreshold - 1, 0}}

InitAgents ==
  /\ board \in AgentBoards
  /\ maxdepth \in {1, 2}
  /\ game \in AgentGames
  /\ CallIdle
  /\ mmPc = "idle"
  /\ mmMove = None
  /\ best_value = None
  /\ last_search = NoStats
  /\ nodes = <<>>
  /\ searchPc = "idle"
  /\ num_simulations = 0
  /\ simsRun = 0
  /\ lastPath = <<>>
  /\ lastResult = 0
  /\ rolled = FALSE
  /\ move_selector = "ACTION"
  /\ bestChild = NoBest
  /\ rollouts = <<>>
  /\ CacheIdle

MinimaxGetMove ==
  /\ call = NoCall
  /\ call' = [fn |-> "MinimaxAgent.get_move"]
  /\ outcome' = minimax_get_move(board, maxdepth)
  /\ UNCHANGED <<mmVars, treeVars, cacheVars>>

MCTSGetMove ==
  /\ call = NoCall
  /\ call' = [fn |-> "MCTSAgent.get_move"]
  /\ outcome' = mcts_get_move(game)
  /\ UNCHANGED <<mmVars, treeVars, cacheVars>>

ShouldReturnSingleMove ==
  /\ call = NoCall
  /\ call' = [fn |-> "MCTSSearcher.should_return_single_move"]
  /\ outcome' = should_return_single_move(game)
  /\ UNCHANGED <<mmVars, treeVars, cacheVars>>

NextAgents == MinimaxGetMove \/ MCTSGetMove \/ ShouldReturnSingleMove

SpecAgents == InitAgents /\ [][NextAgents]_vars

\* The position the finished call was made on has exactly one legal move.
OneLegalMove ==
  \/ call.fn = "MinimaxAgent.get_move" /\ Len(legal_moves(board, Root)) = 1
  \/ /\ call.fn \in {"MCTSAgent.get_move",
                     "MCTSSearcher.should_return_single_move"}
     /\ NumMoves(game, <<>>) = 1

\* The only legal move of that position.
TheOnlyMove ==
  IF call.fn = "MinimaxAgent.get_move" THEN legal_moves(board, Root)[1] ELSE 1

\* C17: on a position with exactly one legal move, MinimaxAgent.get_move,
\* MCTSAgent.get_move and should_return_single_move return that move, and they
\* do so without running negamax or any simulation.
SingleMoveReturnedAtOnce ==
  OneLegalMove =>
    /\ outcome.kind = "returned"
    /\ outcome.move = TheOnlyMove
    /\ ~outcome.searched

\* The position the finished call was made on is terminal with no legal move.
NoLegalMove ==
  \/ call.fn = "MinimaxAgent.get_move" /\ is_game_over(board, Root)
  \/ /\ call.fn \in {"MCTSAgent.get_move",
                     "MCTSSearcher.should_return_single_move"}
     /\ GameOver(game, <<>>)

\* C18: on a terminal position with no legal moves, MinimaxAgent.get_move,
\* MCTSAgent.get_move and should_return_single_move raise the ValueError that
\* names the terminal position; none of them returns a move or a null move.
TerminalPositionFailsFast ==
  NoLegalMove =>
    /\ outcome.kind = "raised"
    /\ outcome.error = "ValueError"
    /\ outcome.msg \in {"Cannot search from terminal position",
                        "No legal moves available"}

(***************************************************************************)
(* evaluation.py: evaluate with its feature toggles. Scores are kept in    *)
(* hundredths of a pawn. A position carries what the feature functions     *)
(* read from the board: the bishops of each side, the passed pawns (by how *)
(* far they have advanced), the attackers of the centre squares, the       *)
(* castling rights and the pawn cover of each king, the number of legal    *)
(* moves of each side, and the last move of the move stack.                *)
(***************************************************************************)
BishopValue == 333
QueenValue == 950
PawnValue == 100
BishopPairBonus == 50
PassedPawnBonus == 20
CenterControlWeight == 10
KingCastleBonus == 25
KingOpenFilePenalty == -20
PawnShieldPenalty == -10
MoveCheckBonus == 30
MobilityWeight == 5

\* "return score if perspective_color == chess.WHITE else -score"
Signed(score, perspective_color) ==
  IF perspective_color = WHITE THEN score ELSE -score

material_balance(p, perspective_color) ==
  Signed(BishopValue * p.bishops_white - BishopValue * p.bishops_black,
         perspective_color)

bishop_pair_bonus(p, perspective_color) ==
  Signed((IF p.bishops_white >= 2 THEN BishopPairBonus ELSE 0)
           - (IF p.bishops_black >= 2 THEN BishopPairBonus ELSE 0),
         perspective_color)

\* The sum over the passed pawns of a side of PASSED_PAWN_BONUS * (rank / 6).
RECURSIVE PassedSum(_)
PassedSum(ranks) ==
  IF ranks = <<>> THEN 0
  ELSE (PassedPawnBonus * Head(ranks)) \div 6 + PassedSum(Tail(ranks))

passed_pawn_score(p, perspective_color) ==
  Signed(PassedSum(p.passed_white) - PassedSum(p.passed_black),
         perspective_color)

\* center_control(board, perspective_color, squares): w and b are the numbers
\* of attackers of the squares.
center_control(w, b, perspective_color) ==
  Signed((w - b) * CenterControlWeight, perspective_color)

\* open_file_and_shield_penalty of one king.
open_file_and_shield_penalty(open_files, missing_shield) ==
  KingOpenFilePenalty * open_files + PawnShieldPenalty * missing_shield

king_safety(p, perspective_color) ==
  Signed(KingCastleBonus * p.castling_white - KingCastleBonus * p.castling_black
           + open_file_and_shield_penalty(p.open_white, p.shield_white)
           - open_file_and_shield_penalty(p.open_black, p.shield_black),
         perspective_color)

\* mobility_score: board.turn is set to each colour in turn and restored.
mobility_score(p, perspective_color) ==
  Signed((p.mobility_white - p.mobility_black) * MobilityWeight,
         perspective_color)

\* The bonus of the last move, given to the side it was not played by.
BonusUnflipped(bonus, move_color, perspective_color) == bonus

\* "if move_color != perspective_color: bonus = -bonus"
BonusFor(bonus, move_color, perspective_color) ==
  IF move_color # perspective_color THEN -bonus ELSE bonus

\* move_bonus(board, perspective_color); the side that just moved is the one
\* not to move.
move_bonus(p, perspective_color) ==
  LET move == p.last
      capture == IF move.is_capture THEN move.mvv_lva ELSE 0
      check == IF move.is_check THEN MoveCheckBonus ELSE 0
      promotion == IF move.promotion # 0 THEN move.promotion - PawnValue ELSE 0
  IN IF ~move.played THEN 0
     ELSE BonusFor(capture + check + promotion, ~p.turn, perspective_color)

\* The value of a checkmate with the winner and the loser exchanged.
CheckmateScoreSwapped(turn, perspective_color) ==
  IF turn # perspective_color THEN -Inf ELSE Inf

\* 'float("inf") if board.turn != perspective_color else -float("inf")'
CheckmateScore(turn, perspective_color) ==
  IF turn # perspective_color THEN Inf ELSE -Inf

\* evaluate(board, perspective_color, **flags)
evaluate(p, perspective_color, f) ==
  IF p.terminal = "checkmate" THEN CheckmateScore(p.turn, perspective_color)
  ELSE IF p.terminal \in {"stalemate", "insufficient"} THEN 0
  ELSE
    (IF f.use_material THEN material_balance(p, perspective_color) ELSE 0)
    + (IF f.use_bishop_pair THEN bishop_pair_bonus(p, perspective_color) ELSE 0)
    + (IF f.use_passed_pawns THEN passed_pawn_score(p, perspective_color) ELSE 0)
    + (IF f.use_center_extended
       THEN center_control(p.extended_white, p.extended_black, perspective_color)
       ELSE IF f.use_center_basic
       THEN center_control(p.center_white, p.center_black, perspective_color)
       ELSE 0)
    + (IF f.use_king_safety THEN king_safety(p, perspective_color) ELSE 0)
    + (IF f.use_mobility THEN mobility_score(p, perspective_color) ELSE 0)
    + (IF f.include_move_bonus /\ p.last.played
       THEN move_bonus(p, perspective_color) ELSE 0)

\* The flags quick_evaluate passes.
QuickFlags ==
  [include_move_bonus |-> FALSE, use_material |-> TRUE,
   use_bishop_pair |-> TRUE, use_passed_pawns |-> FALSE,
   use_center_basic |-> TRUE, use_center_extended |-> FALSE,
   use_king_safety |-> FALSE, use_mobility |-> FALSE]

\* quick_evaluate(board, perspective_color) on such a position.
QuickEvaluatePosition(p, perspective_color) ==
  evaluate(p, perspective_color, QuickFlags)

\* Every combination of the keyword flags of evaluate.
Flags ==
  [include_move_bonus : BOOLEAN, use_material : BOOLEAN,
   use_bishop_pair : BOOLEAN, use_passed_pawns : BOOLEAN,
   use_center_basic : BOOLEAN, use_center_extended : BOOLEAN,
   use_king_safety : BOOLEAN, use_mobility : BOOLEAN]

\* The most bishops a side has.
MaxBishops == 2

\* What is on the board besides the bishops: two settings.
Placements ==
  {[passed_white |-> <<3>>, passed_black |-> <<>>,
    center_white |-> 2, center_black |-> 1,
    extended_white |-> 5, extended_black |-> 7,
    castling_white |-> 2, castling_black |-> 0,
    open_white |-> 0, open_black |-> 1,
    shield_white |-> 1, shield_black |-> 0,
    mobility_white |-> 20, mobility_black |-> 23],
   [passed_white |-> <<6, 3>>, passed_black |-> <<6>>,
    center_white |-> 0, center_black |-> 3,
    extended_white |-> 4, extended_black |-> 4,
    castling_white |-> 0, castling_black |-> 1,
    open_white |-> 2, open_black |-> 0,
    shield_white |-> 0, shield_black |-> 3,
    mobility_white |-> 1, mobility_black |-> 30]}

\* The top of the move stack: empty, a quiet check, a pawn taking a queen, a
\* queen taking a pawn with check, a promotion to a queen. is_capture is what
\* board.is_capture(move) answers after the move, mvv_lva what mvv_lva_score
\* gives before it.
NoLastMove ==
  [played |-> FALSE, is_capture |-> FALSE, mvv_lva |-> 0, is_check |-> FALSE,
   promotion |-> 0]
LastMoves ==
  {NoLastMove,
   [played |-> TRUE, is_capture |-> FALSE, mvv_lva |-> 0, is_check |-> TRUE,
    promotion |-> 0],
   [played |-> TRUE, is_capture |-> TRUE,
    mvv_lva |-> QueenValue * 10 - PawnValue, is_check |-> FALSE,
    promotion |-> 0],
   [played |-> TRUE, is_capture |-> TRUE,
    mvv_lva |-> PawnValue * 10 - QueenValue, is_check |-> TRUE,
    promotion |-> 0],
   [played |-> TRUE, is_capture |-> TRUE, mvv_lva |-> 0, is_check |-> FALSE,
    promotion |-> QueenValue]}

\* A position evaluate is called on.
EvalPosition(t, term, bw, bb, placed, move) ==
  [turn |-> t, terminal |-> term, bishops_white |-> bw, bishops_black |-> bb,
   passed_white |-> placed.passed_white, passed_black |-> placed.passed_black,
   center_white |-> placed.center_white, center_black |-> placed.center_black,
   extended_white |-> placed.extended_white,
   extended_black |-> placed.extended_black,
   castling_white |-> placed.castling_white,
   castling_black |-> placed.castling_black,
   open_white |-> placed.open_white, open_black |-> placed.open_black,
   shield_white |-> placed.shield_white, shield_black |-> placed.shield_black,
   mobility_white |-> placed.mobility_white,
   mobility_black |-> placed.mobility_black,
   last |-> move]

\* Games in progress with every number of bishops, and finished games
\* (checkmate, stalemate, insufficient material) after some last move.
EvalPositions ==
  {EvalPosition(t, "none", bw, bb, placed, move) :
     t \in BOOLEAN, bw \in 0..MaxBishops, bb \in 0..MaxBishops,
     placed \in Placements, move \in LastMoves}
  \cup
  {EvalPosition(t, term, bw, 0, placed, move) :
     t \in BOOLEAN, term \in {"checkmate", "stalemate", "insufficient"},
     bw \in {0, MaxBishops}, placed \in Placements, move \in LastMoves}

InitEvaluate ==
  /\ call \in {[fn |-> "evaluate", board |-> p] : p \in EvalPositions}
  /\ outcome = NoOutcome
  /\ TreeIdle
  /\ CacheIdle
  /\ board = Position(WHITE, <<>>, NotFinished, {}, 0)
  /\ maxdepth = 1
  /\ mmPc = "idle"
  /\ mmMove = None
  /\ best_value = None
  /\ last_search = NoStats

\* evaluate is called for White and for Black with the same flags.
Evaluate ==
  /\ call.fn = "evaluate"
  /\ outcome = NoOutcome
  /\ \E f \in Flags :
       outcome' = [kind |-> "evaluate", flags |-> f,
                   white |-> evaluate(call.board, WHITE, f),
                   black |-> evaluate(call.board, BLACK, f)]
  /\ UNCHANGED <<call, mmVars, treeVars, cacheVars>>

\* quick_evaluate is called for White and for Black.
QuickEvaluate ==
  /\ call.fn = "evaluate"
  /\ outcome = NoOutcome
  /\ outcome' = [kind |-> "quick_evaluate", flags |-> QuickFlags,
                 white |-> QuickEvaluatePosition(call.board, WHITE),
                 black |-> QuickEvaluatePosition(call.board, BLACK)]
  /\ UNCHANGED <<call, mmVars, treeVars, cacheVars>>

NextEvaluate == Evaluate \/ QuickEvaluate

SpecEvaluate == InitEvaluate /\ [][NextEvaluate]_vars

\* C19: for every position and every combination of the feature flags, the
\* last-move bonus included, evaluate for White is the negation of evaluate
\* for Black, and so is quick_evaluate.
EvaluateIsAntisymmetric ==
  outcome.kind \in {"evaluate", "quick_evaluate"} =>
    outcome.white = -outcome.black

\* A game in progress was evaluated with the last-move bonus of a capturing
\* check and every other feature on, and the score is not zero.
EvaluateAntisymmetricWitness ==
  /\ outcome.kind = "evaluate"
  /\ call.board.terminal = "none"
  /\ call.board.last.is_capture /\ call.board.last.is_check
  /\ outcome.flags.include_move_bonus
  /\ outcome.flags.use_material /\ outcome.flags.use_bishop_pair
  /\ outcome.flags.use_passed_pawns /\ outcome.flags.use_center_extended
  /\ outcome.flags.use_king_safety /\ outcome.flags.use_mobility
  /\ outcome.white # 0

\* C20: a checkmate evaluates to +inf for the side that gave it and to -inf
\* for the side to move, which is checkmated, whatever the feature flags.
CheckmateIsDecisive ==
  (outcome.kind = "evaluate" /\ call.board.terminal = "checkmate") =>
    /\ outcome.white = (IF call.board.turn = BLACK THEN Inf ELSE -Inf)
    /\ outcome.black = (IF call.board.turn = WHITE THEN Inf ELSE -Inf)

\* A checkmate of White, who has two bishops more, was evaluated with the
\* material and the last-move bonus switched on.
CheckmateWitness ==
  /\ outcome.kind = "evaluate"
  /\ call.board.terminal = "checkmate"
  /\ call.board.turn = WHITE
  /\ call.board.bishops_white = MaxBishops
  /\ call.board.last.played
  /\ outcome.flags.use_material /\ outcome.flags.include_move_bonus
  /\ outcome.white = -Inf

(***************************************************************************)
(* Invariants of the tree a search builds (SpecMCTS).                      *)
(***************************************************************************)
\* C21: in every state of a search, every node of the tree that has no visit
\* has the value 0.
UnvisitedNodesHaveNoValue ==
  \A j \in 1..Len(nodes) : nodes[j].visits = 0 => nodes[j].value = 0

\* The tree holds a node without a visit next to a node whose value is not 0.
UnvisitedNodesWitness ==
  /\ searchPc = "searching"
  /\ \E j \in 1..Len(nodes) : nodes[j].visits = 0
  /\ \E j \in 1..Len(nodes) : nodes[j].visits > 0 /\ nodes[j].value # 0

\* The sum of the visits of the nodes children[k..].
RECURSIVE ChildVisits(_, _, _)
ChildVisits(ns, children, k) ==
  IF k > Len(children) THEN 0
  ELSE ns[children[k]].visits + ChildVisits(ns, children, k + 1)

\* C27: in every state of a search each node has at least as many visits as
\* its children have together, so a node whose children all have a visit (the
\* case in which select_child computes the UCB scores) has a visit itself.
VisitsCoverChildren ==
  \A i \in 1..Len(nodes) :
    /\ nodes[i].visits >= ChildVisits(nodes, nodes[i].children, 1)
    /\ (nodes[i].children # <<>> /\ Unvisited(nodes, i) = <<>>) =>
         /\ nodes[i].visits >= 1
         /\ \A k \in 1..Len(nodes[i].children) :
              nodes[nodes[i].children[k]].visits >= 1

\* A simulation has gone through a root whose children all had a visit, and a
\* node below the root has children with visits too.
VisitsCoverWitness ==
  /\ searchPc = "searching"
  /\ Unvisited(nodes, 1) = <<>>
  /\ Len(nodes[1].children) >= 2
  /\ nodes[1].visits > Len(nodes[1].children)
  /\ \E i \in 2..Len(nodes) :
       nodes[i].children # <<>> /\ ChildVisits(nodes, nodes[i].children, 1) >= 1

\* C24: a step of the search that gives new children to a node that already
\* had children (an expansion after the node's first one) leaves the node with
\* at most max(4, floor(sqrt(visits))) children, for the visits the node has
\* when it is expanded.
LaterExpansionsKeepCap ==
  [][\A i \in 1..Len(nodes) :
       (nodes[i].children # <<>>
          /\ Len(nodes'[i].children) > Len(nodes[i].children))
         => Len(nodes'[i].children) <= WideningCap(nodes[i])]_vars

(***************************************************************************)
(* Node.expand called in any order (SpecNode).                             *)
(***************************************************************************)
\* The moves node i holds: those of its children, then its pending queue.
MovesHeld(ns, i) ==
  [k \in 1..Len(ns[i].children) |-> ns[ns[i].children[k]].move]
    \o ns[i].available_moves

\* How often m occurs in moves.
Occurrences(moves, m) == Cardinality({k \in 1..Len(moves) : moves[k] = m})

\* C28: whatever expand() calls were made, a node that has children holds
\* each legal move of its position exactly once, either as the move of one of
\* its children or in available_moves.
ExpandKeepsMovesOnce ==
  \A i \in 1..Len(nodes) :
    nodes[i].children # <<>> =>
      \A m \in 1..NumMoves(game, nodes[i].pos) :
        Occurrences(MovesHeld(nodes, i), m) = 1

(***************************************************************************)
(* The contracts of Node: select_child and action_value called on any node *)
(* of a tree, as calls that return or raise.                               *)
(***************************************************************************)
\* node.select_child(c_puct) as a call: the child returned, or the ValueError
\* of a node without children.
select_child_call(ns, i) ==
  IF ns[i].children = <<>>
  THEN [kind |-> "raised", error |-> "ValueError",
        msg |-> "Cannot select child from node with no children",
        value |-> <<>>]
  ELSE IF select_child(ns, i) = 0
  THEN [kind |-> "raised", error |-> "ValueError",
        msg |-> "No valid child found", value |-> <<>>]
  ELSE [kind |-> "returned", error |-> "none", msg |-> "",
        value |-> <<select_child(ns, i)>>]

\* An action value that is 0 for a node without a visit.
ActionValueOrZero(n) ==
  IF n.visits = 0
  THEN [kind |-> "returned", error |-> "none", msg |-> "", value |-> <<0, 1>>]
  ELSE [kind |-> "returned", error |-> "none", msg |-> "",
        value |-> <<n.value, n.visits>>]

\* node.action_value: value / visits as the fraction <<value, visits>>, or the
\* ValueError of a node without a visit.
action_value(n) ==
  IF n.visits = 0
  THEN [kind |-> "raised", error |-> "ValueError",
        msg |-> "Node has not been visited yet, cannot get action value",
        value |-> <<>>]
  ELSE [kind |-> "returned", error |-> "none", msg |-> "",
        value |-> <<n.value, n.visits>>]

\* The games the trees are grown from.
ContractGames ==
  {[moves |-> m, mate |-> FALSE, mated |-> {}] :
     m \in {<<1>>, <<2>>, <<3>>, <<2, 2>>}}

\* The trees the calls are made on: a fresh root, the root after expand(), and
\* that tree after one or two simulations' expand() and backpropagate().
GrownOnce(g, ns) ==
  {backpropagate(expand(g, ns, i), i, r) :
     i \in 1..Len(ns), r \in RolloutResults}
ContractTrees(g) ==
  LET fresh == <<NewNode(0, 0, <<>>)>>
      root == expand(g, fresh, 1)
      once == GrownOnce(g, root)
  IN {fresh, root} \cup once \cup UNION {GrownOnce(g, t) : t \in once}

InitContract ==
  /\ game \in ContractGames
  /\ nodes \in ContractTrees(game)
  /\ searchPc = "node"
  /\ num_simulations = 0
  /\ simsRun = 0
  /\ lastPath = <<>>
  /\ lastResult = 0
  /\ rolled = FALSE
  /\ move_selector = "ACTION"
  /\ bestChild = NoBest
  /\ rollouts = <<>>
  /\ CacheIdle
  /\ board = Position(WHITE, <<>>, NotFinished, {}, 0)
  /\ maxdepth = 1
  /\ mmPc = "idle"
  /\ mmMove = None
  /\ best_value = None
  /\ last_search = NoStats
  /\ CallIdle

\* node.select_child(c_puct) on a node of the tree.
SelectChild ==
  /\ call = NoCall
  /\ \E i \in 1..Len(nodes) :
       /\ call' = [fn |-> "select_child", node |-> i]
       /\ outcome' = select_child_call(nodes, i)
  /\ UNCHANGED <<mmVars, treeVars, cacheVars>>

\* node.action_value read on a node of the tree.
ActionValue ==
  /\ call = NoCall
  /\ \E i \in 1..Len(nodes) :
       /\ call' = [fn |-> "action_value", node |-> i]
       /\ outcome' = action_value(nodes[i])
  /\ UNCHANGED <<mmVars, treeVars, cacheVars>>

NextContract == SelectChild \/ ActionValue

SpecContract == InitContract /\ [][NextContract]_vars

\* C22: select_child on a node without children and action_value of a node
\* without a visit raise an error instead of returning a value, and the call
\* leaves the tree as it was.
NodeContractsFailLoudly ==
  [][/\ (call'.fn = "select_child" /\ nodes[call'.node].children = <<>>)
          => outcome'.kind = "raised"
     /\ (call'.fn = "action_value" /\ nodes[call'.node].visits = 0)
          => outcome'.kind = "raised"
     /\ nodes' = nodes]_vars

\* select_child has raised on a childless node of a tree whose root is
\* expanded and visited, and reading the action value of that root returns.
NodeContractsWitness ==
  /\ call.fn = "select_child"
  /\ call.node > 1
  /\ nodes[call.node].children = <<>>
  /\ outcome.kind = "raised"
  /\ outcome.msg = "Cannot select child from node with no children"
  /\ action_value(nodes[1]).kind = "returned"
  /\ action_value(nodes[call.node]).kind = "raised"

(***************************************************************************)
(* The resignation of the agents (SpecAgents).                             *)
(***************************************************************************)
\* The evaluator's score of the position of the finished call, for the side to
\* move.
ScoreForMover ==
  IF call.fn = "MinimaxAgent.get_move" THEN evaluate_root(board) ELSE game.score

\* C23: MinimaxAgent.get_move and MCTSAgent.get_move return the null move
\* exactly when the evaluator's score of the position for the side to move is
\* below -resign_threshold, with White and with Black to move.
ResignsExactlyWhenLost ==
  call.fn \in {"MinimaxAgent.get_move", "MCTSAgent.get_move"} =>
    ((outcome.kind = "returned" /\ outcome.move = NullMove)
       <=> ScoreForMover < -ResignThreshold)

(***************************************************************************)
(* The move a search ends with (SpecMCTS).                                 *)
(***************************************************************************)
\* The children of the root whose position is a checkmate given by the move
\* that leads to them.
MatingChildren ==
  {c \in {nodes[1].children[k] : k \in 1..Len(nodes[1].children)} :
     is_terminal(game, nodes[c]) /\ evaluation(game, nodes[c].pos) = -1}

\* C25: when the search under the action-value strategy has ended with every
\* child of the root visited and a move of the root gives checkmate, the mean
\* value of a mating child is the largest among the root's children and
\* get_best_child returns a mating move.
MatingMoveHasBestValue ==
  (searchPc = "chosen" /\ move_selector = "ACTION" /\ MatingChildren # {}
     /\ Unvisited(nodes, 1) = <<>>) =>
    /\ ~bestChild.raised
    /\ bestChild.node \in MatingChildren
    /\ \A m \in MatingChildren : \A k \in 1..Len(nodes[1].children) :
         LET c == nodes[1].children[k]
         IN nodes[c].value * nodes[m].visits <= nodes[m].value * nodes[c].visits

\* C26: after create_root_node and a search of at least one simulation from a
\* position with two or more legal moves, get_best_child returns the move of a
\* child of the root and does not raise, under either strategy, also when a
\* child of the root has no visit.
BestChildNeverRaises ==
  (searchPc = "chosen" /\ NumMoves(game, <<>>) >= 2 /\ num_simulations >= 1) =>
    /\ ~bestChild.raised
    /\ PlaceFrom(nodes[1].children, bestChild.node, 1) > 0
    /\ bestChild.move = nodes[bestChild.node].move

(***************************************************************************)
(* The board object the caller hands to a search. A board is its side to   *)
(* move and its move stack; the position it shows is the one its last move *)
(* leads to. The operators below follow the searches statement by          *)
(* statement and give, with each result, the board object as the call      *)
(* leaves it.                                                              *)
(***************************************************************************)
\* board.push(move): the board keeps the state it had before the move.
push(bd, m) ==
  [turn |-> ~bd.turn, move_stack |-> Append(bd.move_stack, m),
   saved |-> Append(bd.saved, bd.turn)]

\* board.pop(): the last move is dropped and the state kept for it restored.
pop(bd) ==
  [turn |-> bd.saved[Len(bd.saved)],
   move_stack |-> SubSeq(bd.move_stack, 1, Len(bd.move_stack) - 1),
   saved |-> SubSeq(bd.saved, 1, Len(bd.saved) - 1)]

\* The board of a game that began with first_turn to move and saw the moves
\* of stack.
RECURSIVE Played(_, _)
Played(first_turn, stack) ==
  IF stack = <<>>
  THEN [turn |-> first_turn, move_stack |-> <<>>, saved |-> <<>>]
  ELSE push(Played(first_turn, SubSeq(stack, 1, Len(stack) - 1)),
            stack[Len(stack)])

\* The position a board of the minimax tree shows.
Here(bd) ==
  IF bd.move_stack = <<>> THEN Root ELSE bd.move_stack[Len(bd.move_stack)]

\* board.turn = color
SetTurn(bd, color) == [bd EXCEPT !.turn = color]

\* The end of mobility_score without its last assignment.
KeepTurn(bd, saved_turn) == bd

\* "board.turn = saved_turn"
RestoreTurn(bd, saved_turn) == [bd EXCEPT !.turn = saved_turn]

\* mobility_score: the board after the two counts of legal moves.
MobilityBoard(bd) ==
  RestoreTurn(SetTurn(SetTurn(bd, WHITE), BLACK), bd.turn)

\* evaluate(board, board.turn) with the default flags: a finished game returns
\* before any feature; otherwise use_mobility is on.
EvaluateBoard(b, bd) ==
  IF is_game_over(b, Here(bd)) THEN bd ELSE MobilityBoard(bd)

\* order_moves: evaluate_move pushes each move, scores the board and pops.
RECURSIVE OrderBoard(_, _)
OrderBoard(bd, moves) ==
  IF moves = <<>> THEN bd
  ELSE OrderBoard(pop(push(bd, Head(moves))), Tail(moves))

RECURSIVE BoardQuiescence(_, _, _, _, _)
RECURSIVE BoardQuiescenceLoop(_, _, _, _, _, _, _)

\* The for loop of quiescence over moves[idx..] on the board bd.
BoardQuiescenceLoop(b, bd, moves, idx, alpha, beta, perspective_color) ==
  IF idx > Len(moves) THEN [value |-> alpha, bd |-> bd]
  ELSE LET r == BoardQuiescence(b, push(bd, moves[idx]), -beta, -alpha,
                                ~perspective_color)
           score == -r.value
           back == pop(r.bd)
       IN IF score >= beta THEN [value |-> beta, bd |-> back]
          ELSE BoardQuiescenceLoop(b, back, moves, idx + 1, Max(score, alpha),
                                   beta, perspective_color)

\* quiescence(board, alpha, beta, perspective_color)
BoardQuiescence(b, bd, alpha, beta, perspective_color) ==
  LET stand_pat == quick_evaluate(b, Here(bd), perspective_color)
      noisy == noisy_moves(b, Here(bd))
  IN IF stand_pat >= beta THEN [value |-> beta, bd |-> bd]
     ELSE BoardQuiescenceLoop(b, OrderBoard(bd, noisy), order_moves(b, noisy),
                              1, Max(stand_pat, alpha), beta, perspective_color)

RECURSIVE BoardNegamax(_, _, _, _, _, _)
RECURSIVE BoardNegamaxLoop(_, _, _, _, _, _, _, _, _)

\* The for loop of negamax over moves[idx..] on the board bd.
BoardNegamaxLoop(b, bd, moves, idx, depth, alpha, beta, maximizing_color, value) ==
  IF idx > Len(moves) THEN [value |-> value, bd |-> bd]
  ELSE LET w == ChildWindow(alpha, beta)
           r == BoardNegamax(b, push(bd, moves[idx]), depth - 1, w.alpha,
                             w.beta, ~maximizing_color)
           back == pop(r.bd)
           v == Max(value, -r.value)
           a == Max(alpha, v)
       IN IF a >= beta THEN [value |-> v, bd |-> back]
          ELSE BoardNegamaxLoop(b, back, moves, idx + 1, depth, a, beta,
                                maximizing_color, v)

\* negamax(board, depth, alpha, beta, maximizing_color)
BoardNegamax(b, bd, depth, alpha, beta, maximizing_color) ==
  LET legal == legal_moves(b, Here(bd))
  IN IF depth = 0 \/ is_game_over(b, Here(bd))
     THEN BoardQuiescence(b, bd, alpha, beta,
                          IF maximizing_color THEN WHITE ELSE BLACK)
     ELSE BoardNegamaxLoop(b, OrderBoard(bd, legal), order_moves(b, legal), 1,
                           depth, alpha, beta, maximizing_color, -Inf)

\* The root loop of get_move over sorted_moves[idx..] on the board bd.
RECURSIVE BoardRootLoop(_, _, _, _, _, _, _, _)
BoardRootLoop(b, bd, moves, idx, depth, maximizing, best_move, best) ==
  IF idx > Len(moves) THEN [move |-> best_move, bd |-> bd]
  ELSE LET r == BoardNegamax(b, push(bd, moves[idx]), depth - 1, -Inf, Inf,
                             ~maximizing)
           back == pop(r.bd)
       IN IF Improves(maximizing, r.value, best)
          THEN BoardRootLoop(b, back, moves, idx + 1, depth, maximizing,
                             moves[idx], r.value)
          ELSE BoardRootLoop(b, back, moves, idx + 1, depth, maximizing,
                             best_move, best)

\* MinimaxAgent.get_move(board): how the call ends, the move, and the board.
BoardGetMove(b, bd, depth) ==
  LET evaluated == EvaluateBoard(b, bd)
      legal == legal_moves(b, Root)
      sorted_moves == order_moves(b, legal)
      maximizing == (bd.turn = WHITE)
      r == BoardRootLoop(b, OrderBoard(evaluated, legal), sorted_moves, 1,
                         depth, maximizing, None,
                         IF maximizing THEN -Inf ELSE Inf)
  IN IF evaluate_root(b) < -ResignThreshold
     THEN [kind |-> "returned", move |-> NullMove, searched |-> FALSE,
           board |-> evaluated]
     ELSE IF Len(legal) = 1
     THEN [kind |-> "returned", move |-> legal[1], searched |-> FALSE,
           board |-> evaluated]
     ELSE IF sorted_moves = <<>>
     THEN [kind |-> "raised", move |-> None, searched |-> TRUE,
           board |-> r.bd]
     ELSE [kind |-> "returned",
           move |-> IF r.move # None THEN r.move ELSE sorted_moves[1],
           searched |-> TRUE, board |-> r.bd]

(***************************************************************************)
(* The MCTS searcher and the caller's board. The board objects are kept in *)
(* a sequence; object 1 is the caller's, a copy is a new object.           *)
(***************************************************************************)
\* The copy is the caller's object itself.
Alias(objects, src) == objects

\* board.copy(): a new object, the last of the sequence, with src's content.
copy(objects, src) == Append(objects, objects[src])

\* obj.push(move)
PushOn(objects, obj, m) == [objects EXCEPT ![obj] = push(@, m)]

\* should_return_single_move: next_board = board.copy(); next_board.push(move)
SingleMoveObjects(g, objects) ==
  LET legal == get_legal_moves(g)
      copied == copy(objects, 1)
  IN IF legal.kind = "returned" /\ Len(legal.moves) = 1
     THEN PushOn(copied, Len(copied), legal.moves[1])
     ELSE objects

\* The children expand() gives the node whose board is object node_board:
\* Node(parent=self, move=move) copies the parent's board and pushes the move.
RECURSIVE ChildObjects(_, _, _)
ChildObjects(objects, node_board, moves) ==
  IF moves = <<>> THEN objects
  ELSE LET copied == copy(objects, node_board)
       IN ChildObjects(PushOn(copied, Len(copied), Head(moves)), node_board,
                       Tail(moves))

\* create_root_node: Node(board=board.copy()), whose __init__ copies the board
\* it is given, then root.expand().
RootObjects(g, objects) ==
  LET argument == copy(objects, 1)
      own == copy(argument, Len(argument))
  IN IF GameOver(g, <<>>) THEN own
     ELSE ChildObjects(own, Len(own),
                       get_initial_moves(OrderedMoves(LegalMoves(g, <<>>))))

\* The games the MCTS calls are made on.
FrameGames ==
  {[moves |-> m, mate |-> FALSE, mated |-> {}] :
     m \in {<<>>, <<1>>, <<2>>, <<3, 1>>, <<9>>}}

InitFrame ==
  /\ maxdepth \in Depths
  /\ \/ /\ board \in Boards(maxdepth) \cup AgentBoards
        /\ game = NoGame
        /\ call = [fn |-> "MinimaxAgent.get_move",
                   board |-> Played(board.turn, <<>>)]
     \/ /\ board = Position(WHITE, <<>>, NotFinished, {}, 0)
        /\ game \in FrameGames
        /\ \E fn \in {"should_return_single_move", "create_root_node"},
              t \in BOOLEAN, stack \in {<<>>, <<1>>, <<2, 1>>} :
             call = [fn |-> fn, board |-> Played(t, stack)]
  /\ outcome = NoOutcome
  /\ mmPc = "idle"
  /\ mmMove = None
  /\ best_value = None
  /\ last_search = NoStats
  /\ nodes = <<>>
  /\ searchPc = "idle"
  /\ num_simulations = 0
  /\ simsRun = 0
  /\ lastPath = <<>>
  /\ lastResult = 0
  /\ rolled = FALSE
  /\ move_selector = "ACTION"
  /\ bestChild = NoBest
  /\ rollouts = <<>>
  /\ CacheIdle

\* MinimaxAgent.get_move(board)
MinimaxGetMoveOnBoard ==
  /\ call.fn = "MinimaxAgent.get_move"
  /\ outcome = NoOutcome
  /\ outcome' = BoardGetMove(board, call.board, maxdepth)
  /\ UNCHANGED <<call, mmVars, treeVars, cacheVars>>

\* MCTSSearcher.should_return_single_move(board)
SingleMoveOnBoard ==
  /\ call.fn = "should_return_single_move"
  /\ outcome = NoOutcome
  /\ LET r == should_return_single_move(game)
     IN outcome' = [kind |-> r.kind, move |-> r.move, searched |-> FALSE,
                    board |-> SingleMoveObjects(game, <<call.board>>)[1]]
  /\ UNCHANGED <<call, mmVars, treeVars, cacheVars>>

\* MCTSSearcher.create_root_node(board)
CreateRootNodeOnBoard ==
  /\ call.fn = "create_root_node"
  /\ outcome = NoOutcome
  /\ outcome' = [kind |-> IF GameOver(game, <<>>) THEN "raised" ELSE "returned",
                 move |-> None, searched |-> FALSE,
                 board |-> RootObjects(game, <<call.board>>)[1]]
  /\ UNCHANGED <<call, mmVars, treeVars, cacheVars>>

NextFrame ==
  MinimaxGetMoveOnBoard \/ SingleMoveOnBoard \/ CreateRootNodeOnBoard

SpecFrame == InitFrame /\ [][NextFrame]_vars

\* C29: when MinimaxAgent.get_move, should_return_single_move or
\* create_root_node has returned, the board object of the caller has the side
\* to move and the move stack it was passed in with.
SearchLeavesBoardUnchanged ==
  outcome.kind = "returned" => outcome.board = call.board

\* get_move has returned from a search of depth 2 or more in which quiescence
\* had captures to try, with Black to move, and with the move get_move finds.
SearchLeavesBoardWitness ==
  /\ call.fn = "MinimaxAgent.get_move"
  /\ outcome.kind = "returned"
  /\ outcome.searched
  /\ maxdepth >= 2
  /\ board.noisy # {}
  /\ call.board.turn = BLACK
  /\ outcome.move = get_move(board, maxdepth).move

\* C30: save_cache of a searcher that has no transposition table
\* (use_pruning=False) leaves the content of a snapshot file that exists as it
\* was, so that load_cache returns from it what it returned before.
SaveWithoutTableKeepsSnapshot ==
  [][(SaveCache /\ transposition_table = NoTable /\ cache_file.kind = "file")
       => /\ cache_file'.bytes = cache_file.bytes
          /\ load_cache(cache_file') = load_cache(cache_file)]_vars
====
